---- MODULE Spec2Model ----
(***************************************************************************)
(* A model of google-cli's authentication and credential management:       *)
(* the profile registry (lib/config.ts), the secret store                  *)
(* (lib/storage.ts), the credential manager, the token-rotation hook and   *)
(* the OAuth login flow with its local callback listener (lib/auth.ts).    *)
(*                                                                         *)
(* JavaScript values are modelled as follows.  A string secret is a        *)
(* sequence of lexemes (a client id is <<"id1">>, a JSON text is           *)
(* <<"{", "access_token", "a1", "}">>), null is the empty sequence, and    *)
(* undefined is the string "undefined".  The registry's `profiles` object  *)
(* is an ordinary JavaScript object: it has own keys, and it inherits the  *)
(* members of Object.prototype.                                            *)
(***************************************************************************)
EXTENDS Naturals, Sequences, FiniteSets, TLC

VARIABLES
  config,        \* the registry record config.json: [state, activeProfile, profiles]
  last,          \* the last registry operation: its name, arguments, outcome and the registry before it
  backendMode,   \* cachedBackend: "keyring" or "file", selected once per process
  keyring,       \* the OS secret store: account name -> secret (Null when absent)
  files,         \* the file backend: profile -> credential file
  cred,          \* the last credential-manager operation and what it returned
  hooks,         \* the running instances of the token-rotation hook
  authStateToken,\* the module-level CSRF state token
  flow,          \* the login flow: promise, listener, counters
  reqs,          \* the callback requests being handled
  disk,          \* the credentials directory, path by path: the files and their text
  writer,        \* the FileBackend write in progress: its position in writeProfile
  readers,       \* the credential reads in flight, each at one of its await points
  clients,       \* the API client of each profile in clientCache, and its calls in flight
  emitted        \* the error last surfaced: the error thrown, the path taken, the text written

vars == <<config, last, backendMode, keyring, files, cred, hooks, authStateToken, flow, reqs,
          disk, writer, readers, clients, emitted>>

Undefined == "undefined"
Null == <<>>

-----------------------------------------------------------------------------
(* Profile names.  ValidNames match PROFILE_NAME_REGEX; "constructor" and  *)
(* "__proto__" match it too and are members of Object.prototype.           *)

PlainNames == {"default", "work"}
ObjectPrototypeKeys == {"constructor", "__proto__"}
ValidNames == PlainNames \cup ObjectPrototypeKeys
InvalidNames == {"a b"}
Emails == {"a@x.com", "b@x.com"}

PROFILE_NAME_REGEX(name) == name \in ValidNames

createDefaultConfig ==
  [state |-> "missing", activeProfile |-> "default", profiles |-> <<>>]

\* The stored records loadConfig does not accept: a text JSON.parse rejects,
\* an object without a truthy activeProfile, an object without a truthy
\* profiles, and the text "null", which JSON.parse accepts and returns as null.
CorruptStates == {"malformed", "noActiveProfile", "noProfiles", "null"}

\* What loadConfig throws.  JSON.parse throws SyntaxError, which the catch
\* turns into the corrupt-config error; the field test throws the
\* corrupt-config error itself; reading config.activeProfile of null throws
\* TypeError, which the catch rethrows as it is.
loadConfigError(cfg) ==
  IF cfg.state \in {"malformed", "noActiveProfile", "noProfiles"} THEN "CorruptConfig"
  ELSE IF cfg.state = "null" THEN "TypeError"
  ELSE "ok"

\* loadConfig: a missing file yields the default config.
loadConfig(cfg) ==
  IF cfg.state = "missing"
    THEN [createDefaultConfig EXCEPT !.state = "valid"]
    ELSE cfg

\* saveConfig: JSON.stringify writes the own enumerable keys.
saveConfig(c) == [c EXCEPT !.state = "valid"]

OwnKeys(c) == DOMAIN c.profiles

\* config.profiles[name] read as a condition: an own entry is an object, and an
\* inherited member of Object.prototype is a function or an object; all truthy.
Truthy(c, name) == name \in OwnKeys(c) \/ name \in ObjectPrototypeKeys

\* config.profiles[name] = value: the "__proto__" key runs the prototype setter
\* and creates no own key, so saveConfig does not write it.
Assign(profs, name, value) ==
  IF name = "__proto__"
    THEN profs
    ELSE [k \in DOMAIN profs \cup {name} |-> IF k = name THEN value ELSE profs[k]]

\* delete config.profiles[name]: removes an own key only.
DeleteKey(profs, name) == [k \in DOMAIN profs \ {name} |-> profs[k]]

getActiveProfile(cfg) == loadConfig(cfg).activeProfile

listProfiles(cfg) == OwnKeys(loadConfig(cfg))

\* name in config.profiles: the `in` operator follows the prototype chain.
profileExists(cfg, name) ==
  name \in OwnKeys(loadConfig(cfg)) \/ name \in ObjectPrototypeKeys

getProfileEmail(cfg, name) ==
  IF name \in OwnKeys(loadConfig(cfg)) THEN loadConfig(cfg).profiles[name] ELSE Undefined

setActiveProfileResult(cfg, name) ==
  IF ~PROFILE_NAME_REGEX(name) THEN "InvalidProfileName"
  ELSE IF loadConfigError(cfg) # "ok" THEN loadConfigError(cfg)
  ELSE IF ~Truthy(loadConfig(cfg), name) THEN "NotFound"
  ELSE "ok"

setActiveProfileCfg(cfg, name) ==
  IF setActiveProfileResult(cfg, name) = "ok"
    THEN saveConfig([loadConfig(cfg) EXCEPT !.activeProfile = name])
    ELSE cfg

addProfileResult(cfg, name) ==
  IF ~PROFILE_NAME_REGEX(name) THEN "InvalidProfileName"
  ELSE loadConfigError(cfg)

\* addProfile without `config.activeProfile = name` (a mutant of addProfileCfg).
addProfileNoActivate(cfg, name, email) ==
  IF addProfileResult(cfg, name) = "ok"
    THEN saveConfig([loadConfig(cfg) EXCEPT
           !.profiles = Assign(loadConfig(cfg).profiles, name, email)])
    ELSE cfg

addProfileCfg(cfg, name, email) ==
  IF addProfileResult(cfg, name) = "ok"
    THEN saveConfig([loadConfig(cfg) EXCEPT
           !.profiles = Assign(loadConfig(cfg).profiles, name, email),
           !.activeProfile = name])
    ELSE cfg

removeProfileResult(cfg, name) ==
  IF ~PROFILE_NAME_REGEX(name) THEN "InvalidProfileName"
  ELSE IF loadConfigError(cfg) # "ok" THEN loadConfigError(cfg)
  ELSE IF ~Truthy(loadConfig(cfg), name) THEN "NotFound"
  ELSE IF loadConfig(cfg).activeProfile = name THEN "ActiveProfile"
  ELSE "ok"

removeProfileCfg(cfg, name) ==
  IF removeProfileResult(cfg, name) = "ok"
    THEN saveConfig([loadConfig(cfg) EXCEPT
           !.profiles = DeleteKey(loadConfig(cfg).profiles, name)])
    ELSE cfg

\* setProfileEmail validates nothing.  On a name that is only inherited,
\* config.profiles[name] is a member of Object.prototype: the email is set on
\* that object, and the saved record gains no key.
setProfileEmailCfg(cfg, name, email) ==
  IF loadConfigError(cfg) # "ok" THEN cfg
  ELSE IF Truthy(loadConfig(cfg), name) /\ name \notin OwnKeys(loadConfig(cfg))
    THEN saveConfig(loadConfig(cfg))
    ELSE saveConfig([loadConfig(cfg) EXCEPT
           !.profiles = Assign(loadConfig(cfg).profiles, name, email)])

-----------------------------------------------------------------------------
(* Registry operations as actions.                                          *)

NoOp == [op |-> "none", name |-> "", email |-> Undefined, result |-> "ok",
         pre |-> createDefaultConfig]

Done(op, name, email, result) ==
  last' = [op |-> op, name |-> name, email |-> email, result |-> result, pre |-> config]

RestUnchangedByRegistry ==
  UNCHANGED <<backendMode, keyring, files, cred, hooks, authStateToken, flow, reqs,
              disk, writer, readers, clients, emitted>>

AddProfile(name, email) ==
  /\ config' = addProfileCfg(config, name, email)
  /\ Done("addProfile", name, email, addProfileResult(config, name))
  /\ RestUnchangedByRegistry

RemoveProfile(name) ==
  /\ config' = removeProfileCfg(config, name)
  /\ Done("removeProfile", name, Undefined, removeProfileResult(config, name))
  /\ RestUnchangedByRegistry

SetActiveProfile(name) ==
  /\ config' = setActiveProfileCfg(config, name)
  /\ Done("setActiveProfile", name, Undefined, setActiveProfileResult(config, name))
  /\ RestUnchangedByRegistry

SetProfileEmail(name, email) ==
  /\ config' = setProfileEmailCfg(config, name, email)
  /\ Done("setProfileEmail", name, email, loadConfigError(config))
  /\ RestUnchangedByRegistry

NextRegistry ==
  \/ \E name \in ValidNames \cup InvalidNames, email \in Emails \cup {Undefined} :
       AddProfile(name, email)
  \/ \E name \in ValidNames \cup InvalidNames : RemoveProfile(name)
  \/ \E name \in ValidNames \cup InvalidNames : SetActiveProfile(name)
  \/ \E name \in ValidNames, email \in Emails : SetProfileEmail(name, email)

-----------------------------------------------------------------------------
(* JSON texts of token records.  JSON.stringify leaves out the fields that  *)
(* are undefined; JSON.parse throws on a text that is not an object.        *)

TokenFields == <<"access_token", "refresh_token", "expiry_date">>

Field(k, v) == IF v = Undefined THEN <<>> ELSE <<k, v>>

JSONstringify(t) ==
  <<"{">> \o Field("access_token", t.access_token)
          \o Field("refresh_token", t.refresh_token)
          \o Field("expiry_date", t.expiry_date) \o <<"}">>

WellFormedJSON(s) ==
  /\ Len(s) >= 2
  /\ Len(s) % 2 = 0
  /\ s[1] = "{"
  /\ s[Len(s)] = "}"
  /\ \A i \in 2..(Len(s) - 1) :
       (i % 2 = 0) => \E j \in 1..Len(TokenFields) : s[i] = TokenFields[j]

Member(s, k) ==
  IF \E i \in 2..(Len(s) - 1) : i % 2 = 0 /\ s[i] = k
    THEN s[(CHOOSE i \in 2..(Len(s) - 1) : i % 2 = 0 /\ s[i] = k) + 1]
    ELSE Undefined

JSONparse(s) ==
  [access_token |-> Member(s, "access_token"),
   refresh_token |-> Member(s, "refresh_token"),
   expiry_date |-> Member(s, "expiry_date")]

-----------------------------------------------------------------------------
(* SecretStore (lib/storage.ts).  A store S is [mode, keyring, files].      *)
(* `up` says whether the keyring module loads and the platform call         *)
(* succeeds; withEntry turns a failure into the fallback value.             *)

Keys == {"client_id", "client_secret", "tokens"}
Legacy == ""

profileKey(profile, key) == <<profile, key>>
oldKey(key) == <<Legacy, key>>

Accounts == (ValidNames \cup {Legacy}) \X Keys

EmptyKeyring == [a \in Accounts |-> Null]

\* A credential file: `corrupt` says that its content is not JSON.
NoFile == [exists |-> FALSE, corrupt |-> FALSE,
           client_id |-> Null, client_secret |-> Null, tokens |-> Null]

\* readProfile returns a record: the file exists and parses.
Readable(file) == file.exists /\ ~file.corrupt

EmptyFiles == [p \in ValidNames |-> NoFile]

Store == [mode |-> backendMode, keyring |-> keyring, files |-> files]

KeyringGet(S, account, up) == IF up THEN S.keyring[account] ELSE Null

KeyringSet(S, account, value, up) ==
  IF up THEN [S EXCEPT !.keyring[account] = value] ELSE S

KeyringDelete(S, account, up) ==
  IF up THEN [S EXCEPT !.keyring[account] = Null] ELSE S

\* FileBackend.get: the tokens field is parsed on read and serialised again.
FileGet(S, profile, key) ==
  IF ~Readable(S.files[profile]) THEN Null
  ELSE IF key = "tokens"
    THEN (IF S.files[profile].tokens = Null THEN Null
          ELSE JSONstringify(JSONparse(S.files[profile].tokens)))
    ELSE S.files[profile][key]

\* FileBackend.set parses a tokens value before it writes anything.
FileSetThrows(key, value) == key = "tokens" /\ ~WellFormedJSON(value)

FileSet(S, profile, key, value) ==
  IF FileSetThrows(key, value) THEN S
  ELSE [S EXCEPT !.files[profile] =
          [(IF Readable(@) THEN @ ELSE NoFile) EXCEPT
             !.exists = TRUE,
             ![key] = IF key = "tokens" THEN JSONstringify(JSONparse(value)) ELSE value]]

FileDelete(S, profile, key) ==
  IF ~Readable(S.files[profile]) THEN S
  ELSE [S EXCEPT !.files[profile][key] = Null]

FileDeleteProfile(S, profile) == [S EXCEPT !.files[profile] = NoFile]

StorageGet(S, profile, key, up) ==
  IF S.mode = "file" THEN FileGet(S, profile, key)
  ELSE KeyringGet(S, profileKey(profile, key), up)

StorageSet(S, profile, key, value, up) ==
  IF S.mode = "file" THEN FileSet(S, profile, key, value)
  ELSE KeyringSet(S, profileKey(profile, key), value, up)

StorageDelete(S, profile, key, up) ==
  IF S.mode = "file" THEN FileDelete(S, profile, key)
  ELSE KeyringDelete(S, profileKey(profile, key), up)

StorageDeleteProfile(S, profile, up) ==
  IF S.mode = "file" THEN FileDeleteProfile(S, profile)
  ELSE KeyringDelete(KeyringDelete(KeyringDelete(S,
         profileKey(profile, "client_id"), up),
         profileKey(profile, "client_secret"), up),
         profileKey(profile, "tokens"), up)

getOldKey(S, key, up) == KeyringGet(S, oldKey(key), up)

deleteOldKey(S, key, up) == KeyringDelete(S, oldKey(key), up)

-----------------------------------------------------------------------------
(* CredentialManager (lib/auth.ts).  A world W is [config, S]; f says which *)
(* keyring calls of the operation succeed: f.get the reads, f.set the       *)
(* writes, f.del the deletes.                                               *)

World == [config |-> config, S |-> Store]

AllUp == [get |-> TRUE, set |-> TRUE, del |-> TRUE]

oldValue(W, key, f) == getOldKey(W.S, key, f.get)

hasOldCredentials(W, f) == \E k \in Keys : oldValue(W, k, f) # Null

\* One key of the migration: storage.set, then keyring.deleteOldKey.  A set that
\* throws (the file backend parsing a malformed tokens text) skips the delete.
migrateKey(S, key, value, f) ==
  IF value = Null THEN S
  ELSE IF S.mode = "file" /\ FileSetThrows(key, value) THEN S
  ELSE deleteOldKey(StorageSet(S, "default", key, value, f.set), key, f.del)

migrateThrows(W, f) ==
  /\ hasOldCredentials(W, f)
  /\ W.S.mode = "file"
  /\ oldValue(W, "tokens", f) # Null
  /\ FileSetThrows("tokens", oldValue(W, "tokens", f))

migrateOldCredentials(W, f) ==
  IF ~hasOldCredentials(W, f) THEN W
  ELSE [config |->
          IF ~migrateThrows(W, f) /\ ~profileExists(W.config, "default")
            THEN addProfileCfg(W.config, "default", Undefined)
            ELSE W.config,
        S |-> migrateKey(
                migrateKey(
                  migrateKey(W.S, "client_id", oldValue(W, "client_id", f), f),
                  "client_secret", oldValue(W, "client_secret", f), f),
                "tokens", oldValue(W, "tokens", f), f)]

\* getClientCredentials: the value returned (Null: absent).
getClientCredentials(W, p, f) ==
  LET S2 == migrateOldCredentials(W, f).S
      clientId == StorageGet(S2, p, "client_id", f.get)
      clientSecret == StorageGet(S2, p, "client_secret", f.get)
  IN IF clientId = Null \/ clientSecret = Null THEN Null
     ELSE [client_id |-> clientId, client_secret |-> clientSecret]

setClientCredentials(W, clientId, clientSecret, p, f) ==
  [W EXCEPT !.S = StorageSet(StorageSet(W.S, p, "client_id", clientId, f.set),
                             p, "client_secret", clientSecret, f.set)]

\* getTokens: the value returned (Null: absent, also for a malformed text).
getTokens(W, p, f) ==
  LET tokensJson == StorageGet(migrateOldCredentials(W, f).S, p, "tokens", f.get)
  IN IF tokensJson = Null THEN Null
     ELSE IF WellFormedJSON(tokensJson) THEN JSONparse(tokensJson)
     ELSE Null

setTokens(W, tokens, p, f) ==
  [W EXCEPT !.S = StorageSet(W.S, p, "tokens", JSONstringify(tokens), f.set)]

isAuthenticated(W, p, f) ==
  /\ getClientCredentials(W, p, f) # Null
  /\ getTokens(migrateOldCredentials(W, f), p, f) # Null

logout(W, p, f) == [W EXCEPT !.S = StorageDelete(W.S, p, "tokens", f.del)]

deleteProfileCredentials(W, profile, f) ==
  [W EXCEPT !.S = StorageDeleteProfile(W.S, profile, f.del)]

\* exportProfile with the tokens test before the credentials test (a mutant of
\* exportProfileResult).
exportProfileTokensFirst(W, p, f) ==
  IF ~PROFILE_NAME_REGEX(p) THEN "InvalidProfileName"
  ELSE IF migrateThrows(W, f) THEN "SyntaxError"
  ELSE IF getTokens(migrateOldCredentials(W, f), p, f) = Null THEN "MissingTokens"
  ELSE IF getClientCredentials(W, p, f) = Null THEN "MissingCredentials"
  ELSE "ok"

exportProfileResult(W, p, f) ==
  IF ~PROFILE_NAME_REGEX(p) THEN "InvalidProfileName"
  ELSE IF migrateThrows(W, f) THEN "SyntaxError"
  ELSE IF getClientCredentials(W, p, f) = Null THEN "MissingCredentials"
  ELSE IF getTokens(migrateOldCredentials(W, f), p, f) = Null THEN "MissingTokens"
  ELSE "ok"

\* exportProfile: the bundle returned when exportProfileResult is "ok".
exportProfile(W, p, f) ==
  LET W2 == migrateOldCredentials(W, f)
  IN [version |-> 1,
      profile |-> p,
      email |-> getProfileEmail(W2.config, p),
      client_id |-> getClientCredentials(W, p, f).client_id,
      client_secret |-> getClientCredentials(W, p, f).client_secret,
      tokens |-> getTokens(W2, p, f)]

importProfile(W, data, profile, f) ==
  LET W2 == setTokens(setClientCredentials(W, data.client_id, data.client_secret, profile, f),
                      data.tokens, profile, f)
  IN [W2 EXCEPT !.config = addProfileCfg(W2.config, profile, data.email)]

\* The rotation hook's merge of a token event with the tokens it read.
merge(newTokens, existingTokens) ==
  [access_token |-> newTokens.access_token,
   refresh_token |->
     IF newTokens.refresh_token # Undefined THEN newTokens.refresh_token
     ELSE IF existingTokens = Null THEN Undefined
     ELSE existingTokens.refresh_token,
   expiry_date |->
     IF newTokens.expiry_date # Undefined THEN newTokens.expiry_date
     ELSE IF existingTokens = Null THEN Undefined
     ELSE existingTokens.expiry_date]

-----------------------------------------------------------------------------
(* Credential operations as actions.  Each is one call of the exported      *)
(* function, run to completion; the rotation hook is two steps, its read    *)
(* of the existing tokens and its write of the merged ones.                 *)

MaxOps == 3
MaxHooks == 1

CredNames == {"default", "work", "__proto__"}
Failures == {AllUp,
             [get |-> FALSE, set |-> TRUE, del |-> TRUE],
             [get |-> TRUE, set |-> FALSE, del |-> TRUE],
             [get |-> TRUE, set |-> TRUE, del |-> FALSE]}

TokenRecords ==
  {[access_token |-> "a1", refresh_token |-> "r1", expiry_date |-> "e1"],
   [access_token |-> "a2", refresh_token |-> Undefined, expiry_date |-> Undefined]}

\* Token events of the OAuth2 client: a silent refresh carries no refresh token.
TokenEvents ==
  {[access_token |-> "a3", refresh_token |-> Undefined, expiry_date |-> "e3"],
   [access_token |-> "a3", refresh_token |-> "r3", expiry_date |-> Undefined],
   [access_token |-> Undefined, refresh_token |-> Undefined, expiry_date |-> Undefined]}

SampleBundle ==
  [version |-> 1, profile |-> "work", email |-> "a@x.com",
   client_id |-> <<"id1">>, client_secret |-> <<"s1">>,
   tokens |-> [access_token |-> "a1", refresh_token |-> "r1", expiry_date |-> "e1"]]

LegacyTokens == [access_token |-> "a0", refresh_token |-> "r0", expiry_date |-> Undefined]

LegacyKeyring ==
  [a \in Accounts |->
     IF a = oldKey("client_id") THEN <<"id0">>
     ELSE IF a = oldKey("client_secret") THEN <<"s0">>
     ELSE IF a = oldKey("tokens") THEN JSONstringify(LegacyTokens)
     ELSE Null]

\* The operations that begin with migrateOldCredentials.
MigratingOps == {"getTokens", "getClientCredentials", "exportProfile", "getAuthenticatedClient"}

\* A migration takes effect when the read finds a legacy key and runs to its end.
migrationTakesEffect(W, f) == hasOldCredentials(W, f) /\ ~migrateThrows(W, f)

NoCred == [op |-> "none", profile |-> "", arg |-> Null, value |-> Null,
           result |-> "ok", f |-> AllUp, n |-> 0, migrations |-> 0,
           prev |-> [op |-> "none", profile |-> "", arg |-> Null, value |-> Null,
                     result |-> "ok", f |-> AllUp]]

CredDone(op, profile, arg, value, result, f) ==
  cred' = [op |-> op, profile |-> profile, arg |-> arg, value |-> value,
           result |-> result, f |-> f, n |-> cred.n + 1,
           migrations |-> cred.migrations +
             (IF op \in MigratingOps /\ migrationTakesEffect(World, f) THEN 1 ELSE 0),
           prev |-> [op |-> cred.op, profile |-> cred.profile, arg |-> cred.arg,
                     value |-> cred.value, result |-> cred.result, f |-> cred.f]]

SetWorld(W) ==
  /\ config' = W.config
  /\ keyring' = W.S.keyring
  /\ files' = W.S.files

\* What the selected backend holds for p's tokens, read without failure and
\* without the migration.
StoredTokens(W, p) ==
  LET tokensJson == StorageGet(W.S, p, "tokens", TRUE)
  IN IF tokensJson = Null \/ ~WellFormedJSON(tokensJson) THEN Null ELSE JSONparse(tokensJson)

\* The credentials directory path by path.  A path is <<profile, extension>>:
\* <<p, "json">> is the credential file of p and <<p, "json.tmp">> the temporary
\* file that writeProfile writes first.
FileProfiles == {"default", "work"}
DiskPaths == FileProfiles \X {"json", "json.tmp"}

NoEntry == [exists |-> FALSE, text |-> <<>>]

EmptyDisk == [path \in DiskPaths |-> NoEntry]

NoWriter == [pc |-> "idle", profile |-> "", text |-> <<>>, before |-> NoEntry]

\* Two credential reads may be in flight at once.
ReaderSlots == {"A", "B"}

\* A value not read yet.
Unread == <<"unread">>

NoRead == [kind |-> "", p |-> "", pc |-> "idle",
           old |-> [k \in Keys |-> Unread], task |-> [k \in Keys |-> "idle"],
           clientId |-> Unread, result |-> Unread,
           copied |-> FALSE, afterMigration |-> FALSE]

\* Two API calls may be in flight at once.
CallSlots == {"A", "B"}

NoCall == [pc |-> "idle", id |-> 0, p |-> ""]

\* The clientCache maps are empty, and no client object exists.
NoClients == [cache |-> {}, objects |-> <<>>, returned |-> {},
              calls |-> [i \in CallSlots |-> NoCall], started |-> 0]

\* No error has been surfaced.
NoEmitted == [path |-> "none", error |-> [class |-> "none", message |-> <<>>],
              output |-> <<>>]

\* No credential read is in flight, and none has completed a migration.
NoReaders == [calls |-> [slot \in ReaderSlots |-> NoRead], started |-> 0,
              migrated |-> FALSE, overlapped |-> FALSE]

\* The flow before startAuthFlow is called.
NoFlow ==
  [phase |-> "idle", p |-> "", listener |-> "none", promise |-> "pending",
   reason |-> "", closeCalls |-> 0, exchanges |-> 0, issued |-> Null]

NoHooks == [registered |-> {}, running |-> <<>>, events |-> <<>>]

CredFrame ==
  UNCHANGED <<last, backendMode, authStateToken, flow, reqs, disk, writer, readers,
              clients, emitted>>

CredSetTokens(t, p, f) ==
  /\ cred.n < MaxOps
  /\ SetWorld(setTokens(World, t, p, f))
  /\ CredDone("setTokens", p, t, Null, "ok", f)
  /\ UNCHANGED hooks
  /\ CredFrame

CredGetTokens(p, f) ==
  /\ cred.n < MaxOps
  /\ SetWorld(migrateOldCredentials(World, f))
  /\ IF migrateThrows(World, f)
       THEN CredDone("getTokens", p, Null, Null, "SyntaxError", f)
       ELSE CredDone("getTokens", p, Null, getTokens(World, p, f), "ok", f)
  /\ UNCHANGED hooks
  /\ CredFrame

CredExportProfile(p, f) ==
  /\ cred.n < MaxOps
  /\ SetWorld(migrateOldCredentials(World, f))
  /\ IF exportProfileResult(World, p, f) = "ok"
       THEN CredDone("exportProfile", p, Null, exportProfile(World, p, f), "ok", f)
       ELSE CredDone("exportProfile", p, Null, Null, exportProfileResult(World, p, f), f)
  /\ UNCHANGED hooks
  /\ CredFrame

CredSetClientCredentials(clientId, clientSecret, p, f) ==
  /\ cred.n < MaxOps
  /\ SetWorld(setClientCredentials(World, clientId, clientSecret, p, f))
  /\ CredDone("setClientCredentials", p, Null, Null, "ok", f)
  /\ UNCHANGED hooks
  /\ CredFrame

CredLogout(p, f) ==
  /\ cred.n < MaxOps
  /\ SetWorld(logout(World, p, f))
  /\ CredDone("logout", p, Null, Null, "ok", f)
  /\ UNCHANGED hooks
  /\ CredFrame

\* The bundles an import may be given: a bundle file, or the bundle the
\* preceding export returned.
Bundles ==
  {SampleBundle} \cup
    (IF cred.op = "exportProfile" /\ cred.result = "ok" THEN {cred.value} ELSE {})

CredImportProfile(data, target, f) ==
  /\ cred.n < MaxOps
  /\ SetWorld(importProfile(World, data, target, f))
  /\ CredDone("importProfile", target, data, Null, "ok", f)
  /\ UNCHANGED hooks
  /\ CredFrame

\* getAuthenticatedClient: registers the rotation hook on the client it returns.
GetAuthenticatedClient(p, f) ==
  /\ cred.n < MaxOps
  /\ SetWorld(migrateOldCredentials(World, f))
  /\ IF migrateThrows(World, f)
       THEN /\ CredDone("getAuthenticatedClient", p, Null, Null, "SyntaxError", f)
            /\ UNCHANGED hooks
       ELSE IF ~isAuthenticated(World, p, f)
         THEN /\ CredDone("getAuthenticatedClient", p, Null, Null, "NotAuthenticated", f)
              /\ UNCHANGED hooks
         ELSE /\ CredDone("getAuthenticatedClient", p, Null, Null, "ok", f)
              /\ hooks' = [hooks EXCEPT !.registered = @ \cup {p}]
  /\ CredFrame

\* The client emits 'tokens': the hook starts, and returns at once when the
\* event carries no access token.
TokensEvent(p, newTokens) ==
  /\ p \in hooks.registered
  /\ Len(hooks.running) < MaxHooks
  /\ cred.n < MaxOps
  /\ IF newTokens.access_token = Undefined
       THEN UNCHANGED hooks
       ELSE hooks' = [hooks EXCEPT !.running =
              Append(@, [p |-> p, newTokens |-> newTokens, pc |-> "read",
                         existingTokens |-> Null, stored |-> Null])]
  /\ CredDone("tokensEvent", p, newTokens, Null, "ok", AllUp)
  /\ UNCHANGED <<config, keyring, files>>
  /\ CredFrame

\* existingTokens = await getTokens(p); `stored` keeps what the store held.
HookRead(i, f) ==
  /\ i \in 1..Len(hooks.running)
  /\ hooks.running[i].pc = "read"
  /\ ~migrateThrows(World, f)
  /\ SetWorld(migrateOldCredentials(World, f))
  /\ LET h == hooks.running[i]
     IN hooks' = [hooks EXCEPT !.running[i] =
          [h EXCEPT !.pc = "write",
                    !.existingTokens = getTokens(World, h.p, f),
                    !.stored = StoredTokens(World, h.p)]]
  /\ cred' = [cred EXCEPT !.migrations =
                @ + (IF migrationTakesEffect(World, f) THEN 1 ELSE 0)]
  /\ CredFrame

\* await setTokens(merged, p)
HookWrite(i, f) ==
  /\ i \in 1..Len(hooks.running)
  /\ hooks.running[i].pc = "write"
  /\ LET h == hooks.running[i]
     IN /\ SetWorld(setTokens(World, merge(h.newTokens, h.existingTokens), h.p, f))
        /\ CredDone("hook", h.p, h.newTokens, h.stored,
                    IF backendMode = "file" \/ f.set THEN "ok" ELSE "writeFailed", f)
  /\ hooks' = [hooks EXCEPT !.running =
       SubSeq(@, 1, i - 1) \o SubSeq(@, i + 1, Len(@))]
  /\ CredFrame

NextCred ==
  \/ \E t \in TokenRecords, p \in CredNames, f \in Failures : CredSetTokens(t, p, f)
  \/ \E p \in CredNames, f \in Failures : CredGetTokens(p, f)
  \/ \E p \in CredNames, f \in Failures : CredExportProfile(p, f)
  \/ \E p \in CredNames, f \in Failures : CredSetClientCredentials(<<"id1">>, <<"s1">>, p, f)
  \/ \E p \in CredNames, f \in Failures : CredLogout(p, f)
  \/ \E data \in Bundles, p \in CredNames, f \in Failures : CredImportProfile(data, p, f)
  \/ \E p \in CredNames, f \in Failures : GetAuthenticatedClient(p, f)
  \/ \E p \in CredNames, e \in TokenEvents : TokensEvent(p, e)
  \/ \E i \in 1..MaxHooks, f \in Failures : HookRead(i, f)
  \/ \E i \in 1..MaxHooks, f \in Failures : HookWrite(i, f)

InitCred ==
  /\ config = createDefaultConfig
  /\ last = NoOp
  /\ backendMode \in {"keyring", "file"}
  /\ keyring \in {EmptyKeyring, LegacyKeyring}
  /\ files = EmptyFiles
  /\ cred = NoCred
  /\ hooks = NoHooks
  /\ authStateToken = Null
  /\ flow = NoFlow
  /\ reqs = <<>>
  /\ disk = EmptyDisk
  /\ writer = NoWriter
  /\ readers = NoReaders
  /\ clients = NoClients
  /\ emitted = NoEmitted

SpecCred == InitCred /\ [][NextCred]_vars

-----------------------------------------------------------------------------
(* The login flow, startAuthFlow (lib/auth.ts).  The request handler is an  *)
(* async function: it runs to its first await (the token exchange) when a   *)
(* request arrives, and other requests are handled while it waits.  The     *)
(* listener accepts requests from listen until server.close().              *)

MaxRequests == 2

FlowNames == {"default", "work"}
IssuedToken == <<"tok1">>
States == {Null, IssuedToken, <<"evil">>}
Codes == {Null, <<"c1">>}
Errors == {Null, <<"access_denied">>}
Paths == {<<"/callback">>, <<"/callback", "X">>, <<"/other">>}

\* What the token endpoint answers: tokens, tokens without an access token, or
\* an exception (Null).
ExchangeResponses ==
  {[access_token |-> "a9", refresh_token |-> "r9", expiry_date |-> "e9"],
   [access_token |-> "a9", refresh_token |-> Undefined, expiry_date |-> Undefined],
   [access_token |-> Undefined, refresh_token |-> Undefined, expiry_date |-> Undefined],
   Null}

\* req.url.startsWith('/callback')
startsWithCallback(path) == Len(path) >= 1 /\ path[1] = "/callback"

\* The handler's checks without the state comparison (a mutant of classify).
classifyNoStateCheck(error, state, code, token) ==
  IF error # Null THEN "provider"
  ELSE IF code = Null THEN "no_code"
  ELSE "exchange"

\* The handler's checks with the code test before the state test (a mutant of
\* classify).
classifyCodeBeforeState(error, state, code, token) ==
  IF error # Null THEN "provider"
  ELSE IF code = Null THEN "no_code"
  ELSE IF state # token THEN "csrf"
  ELSE "exchange"

\* The handler's checks, in the order of the code.
classify(error, state, code, token) ==
  IF error # Null THEN "provider"
  ELSE IF state # token THEN "csrf"
  ELSE IF code = Null THEN "no_code"
  ELSE "exchange"

\* server.close()
close(fl) == [fl EXCEPT !.listener = "closed", !.closeCalls = @ + 1]

\* reject(reason) and resolve(): a settled promise stays as it is.
reject(fl, reason) ==
  IF fl.promise = "pending" THEN [fl EXCEPT !.promise = "rejected", !.reason = reason] ELSE fl

resolve(fl) ==
  IF fl.promise = "pending" THEN [fl EXCEPT !.promise = "resolved"] ELSE fl

FlowFrame ==
  UNCHANGED <<last, backendMode, cred, hooks, disk, writer, readers, clients, emitted>>

\* startAuthFlow up to createServer and server.listen.
StartAuthFlow(clientId, clientSecret, p, f) ==
  /\ flow.phase = "idle"
  /\ SetWorld(setClientCredentials(World, clientId, clientSecret, p, f))
  /\ authStateToken' = IssuedToken
  /\ flow' = [flow EXCEPT !.phase = "started", !.p = p, !.issued = IssuedToken]
  /\ UNCHANGED reqs
  /\ FlowFrame

\* The listen callback: the port is bound.
Listening ==
  /\ flow.phase = "started"
  /\ flow.listener = "none"
  /\ flow' = [flow EXCEPT !.listener = "open"]
  /\ UNCHANGED <<config, keyring, files, authStateToken, reqs>>
  /\ FlowFrame

\* server.on('error'): the port could not be bound.
ListenError ==
  /\ flow.phase = "started"
  /\ flow.listener = "none"
  /\ flow' = reject([flow EXCEPT !.listener = "failed"], "bind")
  /\ UNCHANGED <<config, keyring, files, authStateToken, reqs>>
  /\ FlowFrame

Request(path, error, state, code) ==
  [path |-> path, error |-> error, state |-> state, code |-> code,
   pc |-> "arrived", outcome |-> "", exchanged |-> FALSE, tokens |-> Null,
   email |-> Null]

\* A request arrives and its handler runs to its first await or to its end.
HandleRequest(path, error, state, code) ==
  /\ flow.listener = "open"
  /\ Len(reqs) < MaxRequests
  /\ LET r == Request(path, error, state, code)
         c == classify(error, state, code, authStateToken)
     IN IF ~startsWithCallback(path)
          THEN /\ reqs' = Append(reqs, [r EXCEPT !.pc = "done", !.outcome = "not_found"])
               /\ UNCHANGED flow
          ELSE IF c = "exchange"
            THEN /\ reqs' = Append(reqs, [r EXCEPT !.pc = "exchanging", !.exchanged = TRUE])
                 /\ flow' = [flow EXCEPT !.exchanges = @ + 1]
            ELSE /\ reqs' = Append(reqs, [r EXCEPT !.pc = "done", !.outcome = c])
                 /\ flow' = reject(close(flow), c)
  /\ UNCHANGED <<config, keyring, files, authStateToken>>
  /\ FlowFrame

\* oauth2Client.getToken(code) returns or throws; with an access token the
\* handler goes on to setTokens and then awaits the email.
ExchangeReturns(i, response, f) ==
  /\ i \in 1..Len(reqs)
  /\ reqs[i].pc = "exchanging"
  /\ IF response = Null \/ response.access_token = Undefined
       THEN /\ reqs' = [reqs EXCEPT ![i] = [@ EXCEPT !.pc = "done", !.outcome = "exchange"]]
            /\ flow' = reject(close(flow), "exchange")
            /\ UNCHANGED <<config, keyring, files>>
       ELSE /\ reqs' = [reqs EXCEPT ![i] = [@ EXCEPT !.pc = "fetchingEmail", !.tokens = response]]
            /\ SetWorld(setTokens(World, response, flow.p, f))
            /\ UNCHANGED flow
  /\ UNCHANGED authStateToken
  /\ FlowFrame

\* fetchUserEmail returns (Null: it failed); addProfile, close, resolve.
EmailReturns(i, email) ==
  /\ i \in 1..Len(reqs)
  /\ reqs[i].pc = "fetchingEmail"
  /\ reqs' = [reqs EXCEPT ![i] = [@ EXCEPT !.pc = "done", !.outcome = "ok",
                                            !.email = email]]
  /\ config' = addProfileCfg(config, flow.p, IF email = Null THEN Undefined ELSE email[1])
  /\ flow' = resolve(close(flow))
  /\ UNCHANGED <<keyring, files, authStateToken>>
  /\ FlowFrame

NextFlow ==
  \/ \E p \in FlowNames, f \in Failures : StartAuthFlow(<<"id1">>, <<"s1">>, p, f)
  \/ Listening
  \/ ListenError
  \/ \E path \in Paths, error \in Errors, state \in States, code \in Codes :
       HandleRequest(path, error, state, code)
  \/ \E i \in 1..MaxRequests, response \in ExchangeResponses, f \in Failures :
       ExchangeReturns(i, response, f)
  \/ \E i \in 1..MaxRequests, email \in {Null} \cup {<<e>> : e \in Emails} :
       EmailReturns(i, email)

InitFlow ==
  /\ config = createDefaultConfig
  /\ last = NoOp
  /\ backendMode \in {"keyring", "file"}
  /\ keyring = EmptyKeyring
  /\ files = EmptyFiles
  /\ cred = NoCred
  /\ hooks = NoHooks
  /\ authStateToken = Null
  /\ flow = NoFlow
  /\ reqs = <<>>
  /\ disk = EmptyDisk
  /\ writer = NoWriter
  /\ readers = NoReaders
  /\ clients = NoClients
  /\ emitted = NoEmitted

SpecFlow == InitFlow /\ [][NextFlow]_vars

passedValidation(r) ==
  startsWithCallback(r.path) /\ r.error = Null /\ r.state = flow.issued

\* C1 as stated: a callback request whose state is not the issued token makes
\* the flow fail with the CSRF-mismatch reason, and no token exchange is
\* started for it.
C1_AsStated ==
  \A i \in 1..Len(reqs) :
    (startsWithCallback(reqs[i].path) /\ reqs[i].state # flow.issued)
    => /\ flow.promise = "rejected"
       /\ flow.reason = "csrf"
       /\ ~reqs[i].exchanged

\* C1 as amended: a callback request without an error parameter whose state is
\* not the issued token makes the flow fail with the CSRF-mismatch reason; a
\* callback request whose state is not the issued token never starts a token
\* exchange, whatever code it carries, and fails the flow.
C1_CsrfNoExchange ==
  \A i \in 1..Len(reqs) :
    (startsWithCallback(reqs[i].path) /\ reqs[i].state # flow.issued)
    => /\ flow.promise = "rejected"
       /\ ~reqs[i].exchanged
       /\ reqs[i].error = Null => (flow.reason = "csrf" /\ reqs[i].outcome = "csrf")
       /\ reqs[i].error # Null => (flow.reason = "provider" /\ reqs[i].outcome = "provider")

\* C1 witness: a request with a code and a wrong state has failed the flow.
C1_Witness ==
  \E i \in 1..Len(reqs) :
    /\ reqs[i].path = <<"/callback">>
    /\ reqs[i].error = Null
    /\ reqs[i].state = <<"evil">>
    /\ reqs[i].code # Null
    /\ reqs[i].outcome = "csrf"
    /\ flow.reason = "csrf"

\* C2: the state token is single-use: at most one callback request passes the
\* state validation, and at most one token exchange is started.  (The claim as
\* stated.)
C2_SingleUseToken ==
  /\ \A i, j \in 1..Len(reqs) :
       (i < j /\ passedValidation(reqs[i])) => ~passedValidation(reqs[j])
  /\ flow.exchanges <= 1

\* C3: once bound, the listener is closed exactly once when the flow ends: never
\* twice, and never open after the promise has settled.  (The claim as stated.)
C3_ClosedExactlyOnce ==
  flow.listener \in {"open", "closed"}
  => /\ flow.closeCalls <= 1
     /\ (flow.promise # "pending" => flow.listener = "closed" /\ flow.closeCalls = 1)

\* C4: the settled states are terminal: after the flow has failed nothing is
\* written to the secret store or the registry, and a committed flow stays
\* committed.  (The claim as stated.)
C4_TerminalStates ==
  [][/\ flow.promise = "rejected"
        => (keyring' = keyring /\ files' = files /\ config' = config
            /\ flow'.promise = "rejected")
     /\ flow.promise = "resolved" => flow'.promise = "resolved"]_vars

\* The profiles that have an entry in the secret store: a credential file, or
\* a keyring entry under one of the profile's scoped keys.
SecretProfiles(W) ==
  IF W.S.mode = "file"
    THEN {p \in ValidNames : W.S.files[p].exists}
    ELSE {p \in ValidNames : \E k \in Keys : W.S.keyring[profileKey(p, k)] # Null}

\* C15: when a login flow has ended, successfully or not, the registered
\* profiles are the profiles that have entries in the secret store.  (The claim
\* as stated, for the login flow.)
C15_RegistryMatchesStore ==
  flow.promise # "pending" => SecretProfiles(World) = listProfiles(config)

\* C16: a request whose path is not exactly "/callback" is answered not-found
\* and changes nothing: no check of the handler is applied to it, the flow is
\* not failed by it and no token exchange is started for it.  (The claim as
\* stated.)
C16_OtherPathsIgnored ==
  \A i \in 1..Len(reqs) :
    reqs[i].path # <<"/callback">>
    => /\ reqs[i].outcome = "not_found"
       /\ reqs[i].pc = "done"
       /\ ~reqs[i].exchanged

\* C29: a request to /callback is classified in a fixed order.  With an error
\* parameter of a non-empty value the flow fails with the provider error, whatever its state and
\* code; otherwise with a state that is not the issued token the flow fails
\* with the CSRF reason, whatever its code; otherwise without a code the flow
\* fails with the missing-code reason; and the token exchange is started for
\* exactly the requests with no error, the issued state and a code.
C29_ClassificationOrder ==
  \A i \in 1..Len(reqs) :
    startsWithCallback(reqs[i].path)
    => LET r == reqs[i]
           failsWith(reason) ==
             /\ r.outcome = reason
             /\ ~r.exchanged
             /\ flow.promise = "rejected"
             /\ flow.reason = reason
       IN /\ r.error # Null => failsWith("provider")
          /\ (r.error = Null /\ r.state # flow.issued) => failsWith("csrf")
          /\ (r.error = Null /\ r.state = flow.issued /\ r.code = Null) => failsWith("no_code")
          /\ r.exchanged <=> (r.error = Null /\ r.state = flow.issued /\ r.code # Null)

\* C29 witness: a request without an error parameter and without a code, whose
\* state is not the issued token, has failed the flow with the CSRF reason
\* while an earlier request with the issued state and a code awaits its
\* exchange.
C29_Witness ==
  /\ Len(reqs) = 2
  /\ reqs[1].exchanged /\ reqs[1].pc = "exchanging"
  /\ startsWithCallback(reqs[2].path)
  /\ reqs[2].error = Null
  /\ reqs[2].state = <<"evil">>
  /\ reqs[2].code = Null
  /\ reqs[2].outcome = "csrf"
  /\ flow.reason = "csrf"

\* The step at which request i resolves the promise of startAuthFlow.
Resolves(i) ==
  /\ flow.promise = "pending"
  /\ flow'.promise = "resolved"
  /\ i \in 1..Len(reqs)
  /\ reqs[i].pc = "fetchingEmail"
  /\ reqs'[i].pc = "done"

\* What the email fetch of request i returned, as addProfile receives it.
Fetched(i) == IF reqs'[i].email = Null THEN Undefined ELSE reqs'[i].email[1]

\* C30: at the step at which startAuthFlow(clientId, clientSecret, p)
\* resolves, getTokens(p) returns the tokens that the exchange of the resolving
\* request returned, isAuthenticated(p) is true, p is a registered profile and
\* the active one, and the email cached for p is the one the email fetch
\* returned (none when the fetch failed, which does not fail the flow).  (The
\* claim as stated.)
C30_ResolvedFlowCommitted ==
  [][\A i \in 1..MaxRequests :
       Resolves(i)
       => /\ getTokens(World', flow.p, AllUp) = reqs[i].tokens
          /\ isAuthenticated(World', flow.p, AllUp)
          /\ flow.p \in listProfiles(config')
          /\ getActiveProfile(config') = flow.p
          /\ getProfileEmail(config', flow.p) = Fetched(i)]_vars

\* C31: when the token exchange of a request has failed (the response has no
\* access token, or getToken raised), the flow has failed with the exchange
\* reason, the target profile has the tokens it had before (none: the flow
\* starts from an empty store), and the registry is the one the flow started
\* with: the profile is not registered and the active pointer has not moved.
\* (The claim as stated.)
C31_FailedExchangeLeavesNoTrace ==
  \A i \in 1..Len(reqs) :
    reqs[i].outcome = "exchange"
    => /\ flow.promise = "rejected"
       /\ flow.reason = "exchange"
       /\ StoredTokens(World, flow.p) = Null
       /\ config = createDefaultConfig

\* C37: a login flow for p that has failed (provider error, CSRF mismatch,
\* missing code, failed exchange or bind failure) leaves the stored client
\* credentials and tokens of p as they were before startAuthFlow was called
\* (absent: the flow starts from an empty store).  (The claim as stated.)
C37_FailedLoginLeavesCredentials ==
  flow.promise = "rejected"
  => \A k \in Keys : StorageGet(Store, flow.p, k, TRUE) = Null

-----------------------------------------------------------------------------
(* Properties of the credential manager, checked under SpecCred.            *)

\* C5: refresh-merge law.  When the hook has run for a profile whose stored
\* tokens held a refresh token, on an event with a new access token and no
\* refresh token, the persisted tokens hold the original refresh token, and
\* the new access token once the write went through.  (The claim as stated.)
C5_RefreshMergeLaw ==
  (/\ cred.op = "hook"
   /\ cred.value # Null
   /\ cred.value.refresh_token # Undefined
   /\ cred.arg.refresh_token = Undefined)
  => /\ StoredTokens(World, cred.profile) # Null
     /\ StoredTokens(World, cred.profile).refresh_token = cred.value.refresh_token
     /\ (cred.result = "ok"
           => StoredTokens(World, cred.profile).access_token = cred.arg.access_token)

\* C9: token round-trip.  getTokens(p) right after setTokens(t, p) returns t.
\* (The claim as stated, for calls in which no backend call failed.)
C9_TokenRoundTrip ==
  (/\ cred.op = "getTokens"
   /\ cred.prev.op = "setTokens"
   /\ cred.prev.profile = cred.profile
   /\ cred.f = AllUp
   /\ cred.prev.f = AllUp)
  => /\ cred.result = "ok"
     /\ cred.value = cred.prev.arg

\* C10: export/import round-trip.  After importProfile(exportProfile(p), p2),
\* p2 is authenticated and has p's client credentials, tokens and cached
\* email.  (The claim as stated, for calls in which no backend call failed.)
C10_ExportImportRoundTrip ==
  (/\ cred.op = "importProfile"
   /\ cred.prev.op = "exportProfile"
   /\ cred.prev.result = "ok"
   /\ cred.arg = cred.prev.value
   /\ cred.f = AllUp
   /\ cred.prev.f = AllUp)
  => /\ isAuthenticated(World, cred.profile, AllUp)
     /\ getClientCredentials(World, cred.profile, AllUp)
          = getClientCredentials(World, cred.prev.profile, AllUp)
     /\ getTokens(World, cred.profile, AllUp) = getTokens(World, cred.prev.profile, AllUp)
     /\ getProfileEmail(config, cred.profile) = getProfileEmail(config, cred.prev.profile)

\* Some legacy unscoped key holds a secret.
LegacyPresent(kr) == \E k \in Keys : kr[oldKey(k)] # Null

\* C11: legacy migration scenario.  When getTokens returns from a state with
\* secrets under the legacy keys and no registered profile, "default" is
\* registered, every legacy value is stored under the scoped key of "default",
\* and no legacy key remains.  (The claim as stated, for a call whose reads of
\* the legacy keys succeed.)
C11_LegacyMigrationScenario ==
  [][(/\ cred'.op = "getTokens"
      /\ cred'.n = cred.n + 1
      /\ cred'.result = "ok"
      /\ cred'.f.get
      /\ LegacyPresent(keyring)
      /\ listProfiles(config) = {})
     => /\ "default" \in listProfiles(config')
        /\ \A k \in Keys :
             keyring[oldKey(k)] # Null
             => StorageGet(Store', "default", k, TRUE) = keyring[oldKey(k)]
        /\ ~LegacyPresent(keyring')]_vars

\* C12: the legacy migration takes effect at most once: after a read has
\* completed a migration no later read finds a legacy key and migrates again.
\* (The claim as stated.)
C12_MigratesAtMostOnce ==
  /\ cred.migrations <= 1
  /\ cred.migrations = 1 => ~LegacyPresent(keyring)

\* C20: logout(p) deletes only the tokens of p: afterwards getTokens(p) is
\* absent and isAuthenticated(p) is false, and the client credentials of p, the
\* secrets of the other profiles and the registry are as before.  (The claim as
\* stated, for calls in which no backend call failed.)
C20_LogoutFrame ==
  [][(/\ cred'.op = "logout"
      /\ cred'.n = cred.n + 1
      /\ cred'.f = AllUp)
     => /\ getTokens(World', cred'.profile, AllUp) = Null
        /\ ~isAuthenticated(World', cred'.profile, AllUp)
        /\ getClientCredentials(World', cred'.profile, AllUp)
             = getClientCredentials(World, cred'.profile, AllUp)
        /\ \A q \in ValidNames \ {cred'.profile} : \A k \in Keys :
             StorageGet(Store', q, k, TRUE) = StorageGet(Store, q, k, TRUE)
        /\ config' = config]_vars

\* C38: the legacy migration loses no secret: after an operation that runs
\* migrateOldCredentials has returned, every legacy value that existed before
\* it is stored under the corresponding scoped key of "default" in the
\* selected backend, or is still stored under its unscoped key; also when the
\* backend's set reports failure.  (The claim as stated.)
C38_MigrationLosesNothing ==
  [][(/\ cred'.n = cred.n + 1
      /\ cred'.op \in MigratingOps)
     => \A k \in Keys :
          keyring[oldKey(k)] # Null
          => \/ StorageGet(Store', "default", k, TRUE) = keyring[oldKey(k)]
             \/ keyring'[oldKey(k)] = keyring[oldKey(k)]]_vars

\* C39: a read never switches the active profile: when at least one profile
\* is registered, getTokens(p) leaves the active pointer and the set of
\* registered profiles as they were, for every profile p, also when legacy
\* unscoped keys are present.  (The claim as stated, for getTokens.)
C39_ReadsKeepActiveProfile ==
  [][(/\ cred'.n = cred.n + 1
      /\ cred'.op = "getTokens"
      /\ listProfiles(config) # {})
     => /\ getActiveProfile(config') = getActiveProfile(config)
        /\ listProfiles(config') = listProfiles(config)]_vars

\* The operation that has just returned is a rotation hook that read the
\* tokens of its profile when there were none.
HookBeganWithoutTokens == cred'.op = "hook" /\ cred'.value = Null

\* C40: after logout(p) has returned with the tokens of p deleted, they stay
\* absent: the next operation to return leaves them absent, unless it is a
\* setTokens or an import for p, or a rotation hook for p that read the store
\* after the tokens were gone.  In particular a hook that read the tokens
\* before the logout does not bring tokens back.  (The claim as stated.)
C40_LogoutStays ==
  [][(/\ cred.op = "logout"
      /\ StoredTokens(World, cred.profile) = Null
      /\ cred'.n = cred.n + 1
      /\ ~(cred'.op \in {"setTokens", "importProfile"} /\ cred'.profile = cred.profile)
      /\ ~HookBeganWithoutTokens)
     => StoredTokens(World', cred.profile) = Null]_vars

\* The environment of the process, with the variables the README names set.
processEnv ==
  [GOOGLE_CLIENT_ID |-> <<"envid">>, GOOGLE_CLIENT_SECRET |-> <<"envsecret">>,
   GOOGLE_TOKENS |-> JSONstringify([access_token |-> "a9", refresh_token |-> "r9",
                                    expiry_date |-> "e9"])]

\* C24: environment fallback.  getTokens("default"), called while the store
\* holds no tokens for "default", no legacy key holds a secret and no email is
\* cached for "default", returns the token record of the environment
\* variable; for every other profile, and for "default" with a cached email,
\* a store without tokens yields absent.  (The claim as stated, for calls in
\* which no backend call failed.)
C24_EnvironmentFallback ==
  [][(/\ cred'.op = "getTokens"
      /\ cred'.n = cred.n + 1
      /\ cred'.result = "ok"
      /\ cred'.f = AllUp
      /\ ~LegacyPresent(keyring)
      /\ StoredTokens(World, cred'.profile) = Null)
     => IF cred'.profile = "default" /\ getProfileEmail(config, "default") = Undefined
          THEN cred'.value = JSONparse(processEnv.GOOGLE_TOKENS)
          ELSE cred'.value = Null]_vars

-----------------------------------------------------------------------------
(* exportProfile on every store a single operation produces: both backends, *)
(* with and without legacy secrets, with and without backend failures.      *)

MaxExportOps == 2

NextExport ==
  \/ \E p \in CredNames, f \in Failures :
       cred.n < MaxExportOps /\ CredSetClientCredentials(<<"id1">>, <<"s1">>, p, f)
  \/ \E t \in TokenRecords, p \in CredNames, f \in Failures :
       cred.n < MaxExportOps /\ CredSetTokens(t, p, f)
  \/ \E data \in Bundles, p \in CredNames, f \in Failures :
       cred.n < MaxExportOps /\ CredImportProfile(data, p, f)
  \/ \E p \in CredNames, f \in Failures :
       cred.n < MaxExportOps /\ CredLogout(p, f)
  \/ \E p \in CredNames, f \in Failures :
       cred.n < MaxExportOps /\ CredExportProfile(p, f)

SpecExport == InitCred /\ [][NextExport]_vars

C32_ExportIsPureRead ==
  [][(cred'.n = cred.n + 1 /\ cred'.op = "exportProfile")
     => /\ config' = config
        /\ keyring' = keyring
        /\ files' = files]_vars

-----------------------------------------------------------------------------
(* Reads of a store that holds a malformed token text: under the scoped     *)
(* tokens key, in a credential file that does not parse, or under the       *)
(* legacy tokens key.                                                       *)

MaxCorruptOps == 2

\* A token text cut short.
MalformedJSON == <<"{", "access_token">>

CorruptScopedKeyring ==
  [a \in Accounts |->
     IF a = profileKey("default", "client_id") THEN <<"id1">>
     ELSE IF a = profileKey("default", "client_secret") THEN <<"s1">>
     ELSE IF a = profileKey("default", "tokens") THEN MalformedJSON
     ELSE Null]

CorruptLegacyKeyring ==
  [a \in Accounts |->
     IF a = oldKey("client_id") THEN <<"id0">>
     ELSE IF a = oldKey("client_secret") THEN <<"s0">>
     ELSE IF a = oldKey("tokens") THEN MalformedJSON
     ELSE Null]

CorruptFiles ==
  [p \in ValidNames |->
     IF p = "default" THEN [NoFile EXCEPT !.exists = TRUE, !.corrupt = TRUE] ELSE NoFile]

InitCorrupt ==
  /\ config = createDefaultConfig
  /\ last = NoOp
  /\ \/ backendMode = "keyring" /\ keyring = CorruptScopedKeyring /\ files = EmptyFiles
     \/ backendMode = "file" /\ keyring = EmptyKeyring /\ files = CorruptFiles
     \/ backendMode \in {"keyring", "file"} /\ keyring = CorruptLegacyKeyring /\ files = EmptyFiles
  /\ cred = NoCred
  /\ hooks = NoHooks
  /\ authStateToken = Null
  /\ flow = NoFlow
  /\ reqs = <<>>
  /\ disk = EmptyDisk
  /\ writer = NoWriter
  /\ readers = NoReaders
  /\ clients = NoClients
  /\ emitted = NoEmitted

NextCorrupt ==
  \/ \E p \in CredNames, f \in Failures :
       cred.n < MaxCorruptOps /\ CredGetTokens(p, f)
  \/ \E t \in TokenRecords, p \in CredNames, f \in Failures :
       cred.n < MaxCorruptOps /\ CredSetTokens(t, p, f)
  \/ \E p \in CredNames, f \in Failures :
       cred.n < MaxCorruptOps /\ CredLogout(p, f)

SpecCorrupt == InitCorrupt /\ [][NextCorrupt]_vars

\* The token value stored for p is malformed: the text under the scoped key,
\* the credential file, or (for "default", when it has no well-formed tokens
\* of its own) the text under the legacy key.
MalformedTokens(p) ==
  \/ /\ backendMode = "keyring"
     /\ keyring[profileKey(p, "tokens")] # Null
     /\ ~WellFormedJSON(keyring[profileKey(p, "tokens")])
  \/ backendMode = "file" /\ files[p].exists /\ files[p].corrupt
  \/ /\ p = "default"
     /\ keyring[oldKey("tokens")] # Null
     /\ ~WellFormedJSON(keyring[oldKey("tokens")])
     /\ StoredTokens(World, "default") = Null

\* C19: getTokens(p) never raises, and returns absent when the token value
\* stored for p is malformed.  (The claim as stated.)
C19_MalformedTokensAbsent ==
  [][(cred'.op = "getTokens" /\ cred'.n = cred.n + 1)
     => /\ cred'.result = "ok"
        /\ MalformedTokens(cred'.profile) => cred'.value = Null]_vars

-----------------------------------------------------------------------------
(* FileBackend writes, step by step (lib/storage.ts).  writeFileSync puts   *)
(* the text on the disk piece by piece; renameSync and unlinkSync are       *)
(* atomic.  The process may stop between any two steps, and a write may     *)
(* throw (the exception is caught by writeProfile).                         *)

FileValues == [client_id |-> {"id1"}, client_secret |-> {"s1"}, tokens |-> {"t1"}]

getFilePath(profile) == <<profile, "json">>

\* writeProfile writing straight to the credential file (a mutant of tempPath).
tempPathIsFilePath(filePath) == filePath

\* `${filePath}.tmp`
tempPath(filePath) == <<filePath[1], "json.tmp">>

\* JSON.stringify(data): the members that are set, between braces.
FileText(data) ==
  <<"{", "version", "1", "profile", data.profile>>
    \o (IF data.client_id = Null THEN <<>> ELSE <<"client_id", data.client_id[1]>>)
    \o (IF data.client_secret = Null THEN <<>> ELSE <<"client_secret", data.client_secret[1]>>)
    \o (IF data.tokens = Null THEN <<>> ELSE <<"tokens", data.tokens[1]>>)
    \o <<"}">>

\* JSON.parse succeeds on a complete text only.
CompleteText(text) ==
  /\ Len(text) >= 2
  /\ Len(text) % 2 = 0
  /\ text[1] = "{"
  /\ text[Len(text)] = "}"

FileMember(text, k) ==
  IF Member(text, k) = Undefined THEN Null ELSE <<Member(text, k)>>

\* readProfile: Null when the file is missing or does not parse.
readProfile(d, profile) ==
  LET entry == d[getFilePath(profile)]
  IN IF ~entry.exists \/ ~CompleteText(entry.text) THEN Null
     ELSE [profile |-> Member(entry.text, "profile"),
           client_id |-> FileMember(entry.text, "client_id"),
           client_secret |-> FileMember(entry.text, "client_secret"),
           tokens |-> FileMember(entry.text, "tokens")]

FreshRecord(profile) ==
  [profile |-> profile, client_id |-> Null, client_secret |-> Null, tokens |-> Null]

\* writeProfile begins: writeFileSync opens the temporary file, truncating it.
writeProfileBegins(profile, data) ==
  /\ writer' = [pc |-> "writing", profile |-> profile, text |-> FileText(data),
                before |-> disk[getFilePath(profile)]]
  /\ disk' = [disk EXCEPT ![tempPath(getFilePath(profile))] = [exists |-> TRUE, text |-> <<>>]]

FileFrame ==
  UNCHANGED <<config, last, backendMode, keyring, files, cred, hooks, authStateToken,
              flow, reqs, readers, clients, emitted>>

\* FileBackend.set up to the start of the write.
FileSetBegins(profile, key, value) ==
  /\ writer.pc = "idle"
  /\ LET data == IF readProfile(disk, profile) = Null THEN FreshRecord(profile)
                 ELSE readProfile(disk, profile)
     IN writeProfileBegins(profile, [data EXCEPT ![key] = <<value>>])
  /\ FileFrame

\* FileBackend.delete: nothing to do without a readable file.
FileDeleteBegins(profile, key) ==
  /\ writer.pc = "idle"
  /\ IF readProfile(disk, profile) = Null
       THEN UNCHANGED <<disk, writer>>
       ELSE writeProfileBegins(profile, [readProfile(disk, profile) EXCEPT ![key] = Null])
  /\ FileFrame

\* writeFileSync: one more piece of the text reaches the temporary file.
WriteTemp ==
  /\ writer.pc = "writing"
  /\ LET tmp == tempPath(getFilePath(writer.profile))
         n == Len(disk[tmp].text)
     IN /\ disk' = [disk EXCEPT ![tmp].text = Append(@, writer.text[n + 1])]
        /\ writer' = [writer EXCEPT !.pc = IF n + 1 = Len(writer.text) THEN "written" ELSE "writing"]
  /\ FileFrame

\* renameSync(tempPath, filePath): atomic; writeProfile returns true.
RenameTemp ==
  /\ writer.pc = "written"
  /\ LET filePath == getFilePath(writer.profile)
         tmp == tempPath(filePath)
     IN disk' = IF tmp = filePath THEN disk
                ELSE [disk EXCEPT ![filePath] = disk[tmp], ![tmp] = NoEntry]
  /\ writer' = NoWriter
  /\ FileFrame

\* writeFileSync or renameSync throws; writeProfile catches and returns false.
WriteThrows ==
  /\ writer.pc \in {"writing", "written"}
  /\ writer' = [writer EXCEPT !.pc = "failed"]
  /\ UNCHANGED disk
  /\ FileFrame

\* The process stops between the start of the write and the end of the rename.
Crash ==
  /\ writer.pc \in {"writing", "written"}
  /\ writer' = [writer EXCEPT !.pc = "crashed"]
  /\ UNCHANGED disk
  /\ FileFrame

\* The next operation, in the same process after a failed write or in a new
\* process after a crash.
Resume ==
  /\ writer.pc \in {"failed", "crashed"}
  /\ writer' = NoWriter
  /\ UNCHANGED disk
  /\ FileFrame

\* FileBackend.deleteProfile: unlinkSync.
FileUnlink(profile) ==
  /\ writer.pc = "idle"
  /\ disk' = [disk EXCEPT ![getFilePath(profile)] = NoEntry]
  /\ UNCHANGED writer
  /\ FileFrame

NextFile ==
  \/ \E profile \in FileProfiles, key \in Keys :
       \E value \in FileValues[key] : FileSetBegins(profile, key, value)
  \/ \E profile \in FileProfiles, key \in Keys : FileDeleteBegins(profile, key)
  \/ WriteTemp
  \/ RenameTemp
  \/ WriteThrows
  \/ Crash
  \/ Resume
  \/ \E profile \in FileProfiles : FileUnlink(profile)

InitFile ==
  /\ config = createDefaultConfig
  /\ last = NoOp
  /\ backendMode = "file"
  /\ keyring = EmptyKeyring
  /\ files = EmptyFiles
  /\ cred = NoCred
  /\ hooks = NoHooks
  /\ authStateToken = Null
  /\ flow = NoFlow
  /\ reqs = <<>>
  /\ disk = EmptyDisk
  /\ writer = NoWriter
  /\ readers = NoReaders
  /\ clients = NoClients
  /\ emitted = NoEmitted

SpecFile == InitFile /\ [][NextFile]_vars

\* C14: file-backend write atomicity.  The credential file of every profile
\* is missing or holds a complete record at every moment, so no reader sees a
\* partial one; and from the start of the temporary-file write to the end of
\* the rename, also when the process stops or the write throws in between, the
\* credential file is what it was before the operation.
C14_WriteAtomicity ==
  /\ \A profile \in FileProfiles :
       LET entry == disk[getFilePath(profile)]
       IN entry.exists => CompleteText(entry.text) /\ readProfile(disk, profile) # Null
  /\ writer.pc \in {"writing", "written", "failed", "crashed"}
       => disk[getFilePath(writer.profile)] = writer.before

\* C14 witness: the process has stopped in the middle of the temporary-file
\* write of a set that replaces an existing record.
C14_Witness ==
  /\ writer.pc = "crashed"
  /\ writer.before.exists
  /\ disk[tempPath(getFilePath(writer.profile))].exists
  /\ Len(disk[tempPath(getFilePath(writer.profile))].text) \in 1..(Len(writer.text) - 1)
  /\ writer.text # writer.before.text

-----------------------------------------------------------------------------
(* Credential reads in flight at once (lib/auth.ts).  getTokens and         *)
(* getClientCredentials await migrateOldCredentials and then read the       *)
(* store; every keyring call is behind an await, so the calls of the reads  *)
(* in flight interleave one storage call at a time, in any order.  The      *)
(* storage calls succeed here; what a failing call does to a migration is   *)
(* the same for one read and for several.                                   *)

MaxReads == 3

ReadKinds == {"getTokens", "getClientCredentials"}
ReadNames == {"default", "work"}

\* Two profiles logged in with this version while the legacy keys of the
\* single-profile version are still in the keyring.
LoggedInConfig ==
  [state |-> "valid", activeProfile |-> "work",
   profiles |-> [n \in ReadNames |-> Undefined]]

NewTokens == [access_token |-> "a1", refresh_token |-> "r1", expiry_date |-> "e1"]

LoggedInStore(mode) ==
  LET S0 == [mode |-> mode, keyring |-> LegacyKeyring, files |-> EmptyFiles]
      login(S, n) ==
        StorageSet(StorageSet(StorageSet(S, n, "client_id", <<"id1">>, TRUE),
                              n, "client_secret", <<"s1">>, TRUE),
                   n, "tokens", JSONstringify(NewTokens), TRUE)
  IN login(login(S0, "default"), "work")

InitMig ==
  /\ last = NoOp
  /\ backendMode \in {"keyring", "file"}
  /\ \/ /\ config = createDefaultConfig
        /\ keyring = LegacyKeyring
        /\ files = EmptyFiles
     \/ /\ config = LoggedInConfig
        /\ keyring = LoggedInStore(backendMode).keyring
        /\ files = LoggedInStore(backendMode).files
  /\ cred = NoCred
  /\ hooks = NoHooks
  /\ authStateToken = Null
  /\ flow = NoFlow
  /\ reqs = <<>>
  /\ disk = EmptyDisk
  /\ writer = NoWriter
  /\ readers = NoReaders
  /\ clients = NoClients
  /\ emitted = NoEmitted

MigFrame ==
  UNCHANGED <<last, backendMode, cred, hooks, authStateToken, flow, reqs, disk, writer,
              clients, emitted>>

InFlight(r) == r.pc \notin {"idle", "done"}

AllRead(old) == \A k \in Keys : old[k] # Unread

AllDone(task) == \A k \in Keys : task[k] = "done"

\* A migration that copies to the profile being read (a mutant of
\* migrationTarget).
migrationTargetIsProfile(p) == p

\* The profile the migration copies the legacy values to.
migrationTarget(p) == "default"

\* A read is called: it runs to its first await, inside getOldKey.
ReadStarts(i, kind, p) ==
  /\ readers.started < MaxReads
  /\ ~InFlight(readers.calls[i])
  /\ readers' = [readers EXCEPT
       !.calls[i] = [NoRead EXCEPT !.kind = kind, !.p = p, !.pc = "getOld"],
       !.started = @ + 1,
       !.overlapped = @ \/ \E j \in ReaderSlots : InFlight(readers.calls[j])]
  /\ UNCHANGED <<config, keyring, files>>
  /\ MigFrame

\* keyring.getOldKey(key).  After the last of the three, hasOldCredentials is
\* computed: without legacy values the migration returns false, with some
\* the copy of each value begins.
GetOldKey(i, key) ==
  /\ readers.calls[i].pc = "getOld"
  /\ readers.calls[i].old[key] = Unread
  /\ LET r == readers.calls[i]
         old == [r.old EXCEPT ![key] = getOldKey(Store, key, TRUE)]
     IN readers' = [readers EXCEPT !.calls[i] =
          IF ~AllRead(old) THEN [r EXCEPT !.old = old]
          ELSE IF \A k \in Keys : old[k] = Null
            THEN [r EXCEPT !.old = NoRead.old, !.pc = "read"]
          ELSE [r EXCEPT !.old = old, !.pc = "migrating", !.copied = TRUE,
                         !.task = [k \in Keys |-> IF old[k] = Null THEN "done" ELSE "set"]]]
  /\ UNCHANGED <<config, keyring, files>>
  /\ MigFrame

\* storage.set('default', key, value)
MigrateSet(i, key) ==
  /\ readers.calls[i].pc = "migrating"
  /\ readers.calls[i].task[key] = "set"
  /\ SetWorld([World EXCEPT
       !.S = StorageSet(Store, migrationTarget(readers.calls[i].p), key,
                        readers.calls[i].old[key], TRUE)])
  /\ readers' = [readers EXCEPT !.calls[i].task[key] = "delete"]
  /\ MigFrame

\* keyring.deleteOldKey(key)
MigrateDelete(i, key) ==
  /\ readers.calls[i].pc = "migrating"
  /\ readers.calls[i].task[key] = "delete"
  /\ SetWorld([World EXCEPT !.S = deleteOldKey(Store, key, TRUE)])
  /\ readers' = [readers EXCEPT !.calls[i].task[key] = "done"]
  /\ MigFrame

\* Promise.all has resolved: 'default' is registered when it is not, and the
\* migration returns true.
MigrateEnds(i) ==
  /\ readers.calls[i].pc = "migrating"
  /\ AllDone(readers.calls[i].task)
  /\ config' = IF profileExists(config, "default") THEN config
                ELSE addProfileCfg(config, "default", Undefined)
  /\ readers' = [readers EXCEPT
       !.calls[i] = [@ EXCEPT !.pc = "read", !.old = NoRead.old, !.task = NoRead.task],
       !.migrated = TRUE]
  /\ UNCHANGED <<keyring, files>>
  /\ MigFrame

\* The read's own storage.get calls: tokens for getTokens; client_id and then
\* client_secret for getClientCredentials.
ReadStored(i) ==
  /\ readers.calls[i].pc = "read"
  /\ LET r == readers.calls[i]
         tokensJson == StorageGet(Store, r.p, "tokens", TRUE)
         clientSecret == StorageGet(Store, r.p, "client_secret", TRUE)
     IN readers' = [readers EXCEPT !.calls[i] =
          IF r.kind = "getTokens"
            THEN [r EXCEPT !.pc = "done", !.afterMigration = readers.migrated,
                           !.result = IF tokensJson = Null \/ ~WellFormedJSON(tokensJson)
                                        THEN Null ELSE JSONparse(tokensJson)]
          ELSE IF r.clientId = Unread
            THEN [r EXCEPT !.clientId = StorageGet(Store, r.p, "client_id", TRUE)]
          ELSE [r EXCEPT !.pc = "done", !.afterMigration = readers.migrated,
                         !.clientId = Unread,
                         !.result = IF r.clientId = Null \/ clientSecret = Null THEN Null
                                    ELSE [client_id |-> r.clientId,
                                          client_secret |-> clientSecret]]]
  /\ UNCHANGED <<config, keyring, files>>
  /\ MigFrame

NextMig ==
  \/ \E i \in ReaderSlots, kind \in ReadKinds, p \in ReadNames : ReadStarts(i, kind, p)
  \/ \E i \in ReaderSlots, key \in Keys : GetOldKey(i, key)
  \/ \E i \in ReaderSlots, key \in Keys : MigrateSet(i, key)
  \/ \E i \in ReaderSlots, key \in Keys : MigrateDelete(i, key)
  \/ \E i \in ReaderSlots : MigrateEnds(i)
  \/ \E i \in ReaderSlots : ReadStored(i)

SpecMig == InitMig /\ [][NextMig]_vars

\* What a single migration of the legacy keys leaves for "default".
MigratedValue(kind) ==
  IF kind = "getTokens" THEN LegacyTokens
  ELSE [client_id |-> LegacyKeyring[oldKey("client_id")],
        client_secret |-> LegacyKeyring[oldKey("client_secret")]]

-----------------------------------------------------------------------------
(* The auth commands that import and delete profiles (commands/auth.ts),    *)
(* and importProfile called on its own.                                     *)

MaxCmds == 2

\* A bundle written by another format version.
BundleV2 == [SampleBundle EXCEPT !.version = 2]

\* options.profile ?? data.profile
targetProfile(data, option) == IF option = Undefined THEN data.profile ELSE option

\* The import command without its version test (a mutant of
\* importCommandResult).
importCommandNoVersionCheck(cfg, data, target, force) ==
  IF profileExists(cfg, target) /\ ~force THEN "ProfileExists"
  ELSE IF ~PROFILE_NAME_REGEX(target) THEN "InvalidProfileName"
  ELSE "ok"

\* The import command's checks, in the order of the code; the last one is
\* validateProfileName in importProfile.
importCommandResult(cfg, data, target, force) ==
  IF data.version # 1 THEN "UnsupportedVersion"
  ELSE IF profileExists(cfg, target) /\ ~force THEN "ProfileExists"
  ELSE IF ~PROFILE_NAME_REGEX(target) THEN "InvalidProfileName"
  ELSE "ok"

\* The action of the import command; `value` is what the record of the call
\* keeps as its value.
importCommand(data, option, force, f, value) ==
  /\ LET target == targetProfile(data, option)
         result == importCommandResult(config, data, target, force)
     IN /\ IF result = "ok"
             THEN SetWorld(importProfile(World, data, target, f))
             ELSE UNCHANGED <<config, keyring, files>>
        /\ CredDone("importCommand", target, data, value, result, f)
  /\ UNCHANGED hooks
  /\ CredFrame

ImportCommand(data, option, force, f) ==
  /\ cred.n < MaxCmds
  /\ importCommand(data, option, force, f, Null)

\* The delete command's checks; the last one is removeProfile's.
deleteCommandResult(cfg, name) ==
  IF ~profileExists(cfg, name) THEN "NotFound"
  ELSE IF name = getActiveProfile(cfg) THEN "ActiveProfile"
  ELSE removeProfileResult(cfg, name)

DeleteCommand(name, f) ==
  /\ cred.n < MaxCmds
  /\ LET result == deleteCommandResult(config, name)
     IN /\ IF result \in {"NotFound", "ActiveProfile"}
             THEN UNCHANGED <<config, keyring, files>>
             ELSE SetWorld([deleteProfileCredentials(World, name, f) EXCEPT
                              !.config = removeProfileCfg(config, name)])
        /\ CredDone("deleteCommand", name, Null, Null, result, f)
  /\ UNCHANGED hooks
  /\ CredFrame

NextCmd ==
  \/ \E data \in Bundles \cup {BundleV2}, option \in CredNames \cup InvalidNames \cup {Undefined},
        force \in BOOLEAN, f \in Failures :
       ImportCommand(data, option, force, f)
  \/ \E name \in ValidNames \cup InvalidNames, f \in Failures : DeleteCommand(name, f)
  \/ \E data \in Bundles \cup {BundleV2}, p \in CredNames, f \in Failures :
       cred.n < MaxCmds /\ CredImportProfile(data, p, f)

SpecCmd == InitCred /\ [][NextCmd]_vars

\* C17 as stated: importProfile, given a bundle whose version is not 1, fails
\* with the unsupported-version error and writes nothing to the secret store or
\* the registry.
C17_AsStated ==
  [][(/\ cred'.op = "importProfile"
      /\ cred'.n = cred.n + 1
      /\ cred'.arg.version # 1)
     => /\ cred'.result = "UnsupportedVersion"
        /\ UNCHANGED <<config, keyring, files>>]_vars

\* C17 as amended: the import command, given a bundle whose version is not 1,
\* fails with the unsupported-version error before it calls importProfile, and
\* writes nothing to the secret store or the registry, whatever the target
\* profile and the force option.
C17_ImportCommandChecksVersion ==
  [][(/\ cred'.op = "importCommand"
      /\ cred'.n = cred.n + 1
      /\ cred'.arg.version # 1)
     => /\ cred'.result = "UnsupportedVersion"
        /\ UNCHANGED <<config, keyring, files>>]_vars

\* C17 witness: the import command has refused a version-2 bundle aimed, with
\* the force option, at a profile that a previous import created.
C17_Witness ==
  /\ cred.op = "importCommand"
  /\ cred.arg.version = 2
  /\ cred.result = "UnsupportedVersion"
  /\ cred.prev.op = "importCommand"
  /\ cred.prev.result = "ok"
  /\ cred.profile = cred.prev.profile

-----------------------------------------------------------------------------
(* Imports with the force option on record: the import command and          *)
(* importProfile called on its own, onto registered and unregistered        *)
(* targets.                                                                 *)

MaxImports == 2

\* The import command; the record of the call keeps the force option.
ImportCommandWithOptions(data, option, force, f) ==
  /\ cred.n < MaxImports
  /\ importCommand(data, option, force, f, IF force THEN <<"--force">> ELSE Null)

NextImport ==
  \/ \E data \in Bundles \cup {BundleV2}, option \in CredNames \cup {Undefined},
        force \in BOOLEAN, f \in Failures :
       ImportCommandWithOptions(data, option, force, f)
  \/ \E data \in Bundles, p \in CredNames, f \in Failures :
       cred.n < MaxImports /\ CredImportProfile(data, p, f)

SpecImport == InitCred /\ [][NextImport]_vars

\* C33: the import command, given a target profile that is registered and no
\* force option, rejects the import and writes nothing to the secret store or
\* the registry.  importProfile called on its own makes no such test: whether
\* or not the target is registered, after it the target's client credentials,
\* tokens and cached email are the bundle's and the target is the active
\* profile.  (The claim as stated.)
C33_ImportOverwrite ==
  [][/\ (/\ cred'.op = "importCommand"
          /\ cred'.n = cred.n + 1
          /\ cred'.profile \in listProfiles(config)
          /\ cred'.value = Null)
         => /\ cred'.result # "ok"
            /\ UNCHANGED <<config, keyring, files>>
     /\ (/\ cred'.op = "importProfile"
          /\ cred'.n = cred.n + 1)
         => LET data == cred'.arg
                target == cred'.profile
            IN /\ cred'.result = "ok"
               /\ StorageGet(Store', target, "client_id", TRUE) = data.client_id
               /\ StorageGet(Store', target, "client_secret", TRUE) = data.client_secret
               /\ StoredTokens(World', target) = data.tokens
               /\ getProfileEmail(config', target) = data.email
               /\ getActiveProfile(config') = target]_vars

-----------------------------------------------------------------------------
(* The registry on its own: every sequence of registry operations from a    *)
(* fresh registry.                                                          *)

InitRegistry ==
  /\ config = createDefaultConfig
  /\ last = NoOp
  /\ backendMode = "keyring"
  /\ keyring = EmptyKeyring
  /\ files = EmptyFiles
  /\ cred = NoCred
  /\ hooks = NoHooks
  /\ authStateToken = Null
  /\ flow = NoFlow
  /\ reqs = <<>>
  /\ disk = EmptyDisk
  /\ writer = NoWriter
  /\ readers = NoReaders
  /\ clients = NoClients
  /\ emitted = NoEmitted

SpecRegistry == InitRegistry /\ [][NextRegistry]_vars

\* C6: whenever the set of registered profiles is non-empty, the active-profile
\* pointer names a member of it.  (The claim as stated.)
C6_ActiveIsMember ==
  listProfiles(config) # {} => getActiveProfile(config) \in listProfiles(config)

\* C7: removeProfile of the active profile fails with the active-profile error
\* and leaves the registry unchanged; removeProfile of an existing profile that
\* is not active succeeds, and the profile no longer exists.  (The claim as
\* stated.)
C7_RemoveProfile ==
  (last.op = "removeProfile" /\ PROFILE_NAME_REGEX(last.name))
  => /\ (last.name = getActiveProfile(last.pre)
           => last.result = "ActiveProfile" /\ config = last.pre)
     /\ (last.name # getActiveProfile(last.pre) /\ profileExists(last.pre, last.name)
           => last.result = "ok" /\ ~profileExists(config, last.name))

\* C8: after addProfile(n, email) has returned for a valid name n,
\* profileExists(n) is true and getActiveProfile() is n.
C8_AddThenExistsAndActive ==
  (last.op = "addProfile" /\ last.result = "ok")
  => /\ profileExists(config, last.name)
     /\ getActiveProfile(config) = last.name

\* C8 witness: addProfile has registered a new profile in a registry whose
\* active profile was another one.
C8_Witness ==
  /\ last.op = "addProfile"
  /\ last.result = "ok"
  /\ last.name = "work"
  /\ last.pre.state = "valid"
  /\ last.pre.activeProfile = "default"
  /\ "work" \notin OwnKeys(last.pre)
  /\ "default" \in OwnKeys(last.pre)

\* C34: for every name that matches the profile-name pattern, the names of
\* members of Object.prototype included, profileExists(name) is true exactly
\* when name is in listProfiles(); setActiveProfile(name) succeeds, and makes
\* name active, exactly in that case, and otherwise fails with the not-found
\* error and leaves the registry unchanged.  (The claim as stated.)
C34_ExistsIffListed ==
  /\ \A name \in ValidNames : profileExists(config, name) <=> name \in listProfiles(config)
  /\ (last.op = "setActiveProfile" /\ PROFILE_NAME_REGEX(last.name))
     => IF last.name \in listProfiles(last.pre)
          THEN last.result = "ok" /\ getActiveProfile(config) = last.name
          ELSE last.result = "NotFound" /\ config = last.pre

\* C36: a cached email survives later registrations: addProfile(name) called
\* without an email for a registered profile that has a cached email leaves
\* that email as it was.  (The claim as stated.)
C36_CachedEmailSurvives ==
  (/\ last.op = "addProfile"
   /\ last.result = "ok"
   /\ last.email = Undefined
   /\ getProfileEmail(last.pre, last.name) # Undefined)
  => getProfileEmail(config, last.name) = getProfileEmail(last.pre, last.name)

-----------------------------------------------------------------------------
(* The storage backends call by call (lib/storage.ts), with what each call  *)
(* returns.  A platform pl says whether the keyring module loads, whether   *)
(* the platform call (keyring entry or file system) throws, and what        *)
(* Entry.deletePassword() returns for an entry that does not exist: the     *)
(* backend hands that value on as it is.                                    *)

MaxBackendOps == 2

Platforms ==
  {[loads |-> TRUE, throws |-> FALSE, noEntry |-> TRUE],
   [loads |-> TRUE, throws |-> FALSE, noEntry |-> FALSE],
   [loads |-> FALSE, throws |-> FALSE, noEntry |-> FALSE],
   [loads |-> TRUE, throws |-> TRUE, noEntry |-> FALSE]}

Works(pl) == pl.loads /\ ~pl.throws

Returned(value) == [raised |-> FALSE, value |-> value]

\* withEntry without its catch (a mutant of withEntry).
withEntryNoCatch(pl, result, fallback) ==
  IF ~pl.loads THEN Returned(fallback)
  ELSE IF pl.throws THEN [raised |-> TRUE, value |-> fallback]
  ELSE Returned(result)

\* withEntry: the fallback when the module does not load, and when creating
\* the entry or the operation on it throws.
withEntry(pl, result, fallback) ==
  IF ~pl.loads THEN Returned(fallback)
  ELSE IF pl.throws THEN Returned(fallback)
  ELSE Returned(result)

\* e.deletePassword() on the entry of an account.
deletePassword(S, account, pl) ==
  IF S.keyring[account] # Null THEN TRUE ELSE pl.noEntry

\* writeProfile: false when the write or the rename throws.
writeProfile(pl) == ~pl.throws

BackendOps == {"get", "set", "delete", "deleteProfile", "getOldKey", "deleteOldKey"}

\* The account a KeyringBackend call is about.
entryKey(op, profile, key) ==
  IF op \in {"getOldKey", "deleteOldKey"} THEN oldKey(key) ELSE profileKey(profile, key)

\* What the call returns.
BackendReturns(S, op, profile, key, pl) ==
  IF op \in {"getOldKey", "deleteOldKey"} \/ S.mode = "keyring" THEN
    CASE op \in {"get", "getOldKey"} ->
           withEntry(pl, S.keyring[entryKey(op, profile, key)], Null)
      [] op = "set" -> withEntry(pl, TRUE, FALSE)
      [] op \in {"delete", "deleteOldKey"} ->
           withEntry(pl, deletePassword(S, entryKey(op, profile, key), pl), FALSE)
      [] op = "deleteProfile" ->
           [raised |-> \E k \in Keys :
                         withEntry(pl, deletePassword(S, profileKey(profile, k), pl), FALSE).raised,
            value |-> \A k \in Keys :
                        withEntry(pl, deletePassword(S, profileKey(profile, k), pl), FALSE).value]
  ELSE
    CASE op = "get" ->
           Returned(IF pl.throws THEN Null ELSE FileGet(S, profile, key))
      [] op = "set" -> Returned(writeProfile(pl))
      [] op = "delete" ->
           Returned(IF pl.throws \/ ~Readable(S.files[profile]) THEN TRUE ELSE writeProfile(pl))
      [] op = "deleteProfile" -> Returned(~(S.files[profile].exists /\ pl.throws))

\* The store the call leaves.  A file-system call that throws leaves the
\* files as they are.
BackendStore(S, op, profile, key, value, pl) ==
  IF S.mode = "file" /\ op \notin {"getOldKey", "deleteOldKey"} /\ pl.throws THEN S
  ELSE CASE op \in {"get", "getOldKey"} -> S
         [] op = "set" -> StorageSet(S, profile, key, value, Works(pl))
         [] op = "delete" -> StorageDelete(S, profile, key, Works(pl))
         [] op = "deleteProfile" -> StorageDeleteProfile(S, profile, Works(pl))
         [] op = "deleteOldKey" -> deleteOldKey(S, key, Works(pl))

\* The value a set call is given for a key.
BackendValue(key) == IF key = "tokens" THEN JSONstringify(NewTokens) ELSE <<"id2">>

BackendCall(op, profile, key, pl) ==
  /\ cred.n < MaxBackendOps
  /\ SetWorld([World EXCEPT
       !.S = BackendStore(Store, op, profile, key, BackendValue(key), pl)])
  /\ cred' = [NoCred EXCEPT
       !.op = op, !.profile = profile, !.arg = key, !.f = pl, !.n = cred.n + 1,
       !.value = IF op \in {"get", "getOldKey"}
                   THEN BackendReturns(Store, op, profile, key, pl).value ELSE Null,
       !.result = IF BackendReturns(Store, op, profile, key, pl).raised THEN "raised"
                  ELSE IF op \in {"get", "getOldKey"} THEN "ok"
                  ELSE IF BackendReturns(Store, op, profile, key, pl).value THEN "committed"
                  ELSE "failed"]
  /\ UNCHANGED hooks
  /\ CredFrame

NextBackend ==
  \E op \in BackendOps, profile \in ReadNames, key \in Keys, pl \in Platforms :
    BackendCall(op, profile, key, pl)

InitBackend ==
  /\ config = LoggedInConfig
  /\ last = NoOp
  /\ backendMode \in {"keyring", "file"}
  /\ \/ keyring = EmptyKeyring /\ files = EmptyFiles
     \/ keyring = LoggedInStore(backendMode).keyring /\ files = LoggedInStore(backendMode).files
  /\ cred = NoCred
  /\ hooks = NoHooks
  /\ authStateToken = Null
  /\ flow = NoFlow
  /\ reqs = <<>>
  /\ disk = EmptyDisk
  /\ writer = NoWriter
  /\ readers = NoReaders
  /\ clients = NoClients
  /\ emitted = NoEmitted

SpecBackend == InitBackend /\ [][NextBackend]_vars

\* Every keyring call of an operation fails.
AllDown == [get |-> FALSE, set |-> FALSE, del |-> FALSE]

\* C22: with the keyring backend, a call made while the keyring module does
\* not load or the platform call throws returns absent (get, getOldKey) or
\* failed (set, delete, deleteProfile, deleteOldKey) and does not raise; and
\* while every keyring call fails, isAuthenticated(p) is false for every
\* profile.
C22_KeyringErrorsAbsorbed ==
  /\ (cred.op \in BackendOps /\ backendMode = "keyring" /\ ~Works(cred.f))
       => /\ cred.result # "raised"
          /\ cred.op \in {"get", "getOldKey"} => cred.value = Null
          /\ cred.op \notin {"get", "getOldKey"} => cred.result = "failed"
  /\ backendMode = "keyring"
       => \A p \in ReadNames : ~isAuthenticated(World, p, AllDown)

\* C22 witness: a profile has its credentials and tokens in the keyring, and a
\* get of one of them, made while the platform call throws, has returned.
C22_Witness ==
  /\ backendMode = "keyring"
  /\ cred.op = "get"
  /\ cred.f.loads /\ cred.f.throws
  /\ keyring[profileKey(cred.profile, cred.arg)] # Null
  /\ isAuthenticated(World, cred.profile, AllUp)

\* C23: delete(profile, key) of a key that is absent reports success and
\* leaves the store as it was, with both backends; deleteProfile(profile)
\* leaves the three keys absent and reports success, also when some of them
\* were absent before.  Both for calls the platform carries out without an
\* error.  (The claim as stated.)
C23_DeleteAbsent ==
  [][(/\ cred'.n = cred.n + 1
      /\ Works(cred'.f))
     => /\ (/\ cred'.op = "delete"
             /\ StorageGet(Store, cred'.profile, cred'.arg, TRUE) = Null)
            => /\ cred'.result = "committed"
               /\ \A p \in ReadNames, k \in Keys :
                    StorageGet(Store', p, k, TRUE) = StorageGet(Store, p, k, TRUE)
        /\ cred'.op = "deleteProfile"
            => /\ cred'.result = "committed"
               /\ \A k \in Keys : StorageGet(Store', cred'.profile, k, TRUE) = Null]_vars

-----------------------------------------------------------------------------
(* Token events in flight at once (lib/auth.ts).  The listener that          *)
(* getAuthenticatedClient registers is an async function: it awaits          *)
(* getTokens, then awaits setTokens, and a second event is handled while     *)
(* the first listener waits.  `events` keeps the events in the order the     *)
(* client emitted them.                                                      *)

MaxEvents == 2

\* The client of p emits 'tokens': the listener starts, and returns at once
\* when the event carries no access token.
RotationEvent(p, newTokens) ==
  /\ p \in hooks.registered
  /\ Len(hooks.events) < MaxEvents
  /\ hooks' = [hooks EXCEPT
       !.events = Append(@, [p |-> p, newTokens |-> newTokens]),
       !.running =
         IF newTokens.access_token = Undefined THEN @
         ELSE Append(@, [p |-> p, newTokens |-> newTokens, pc |-> "read",
                         existingTokens |-> Null, stored |-> Null])]
  /\ UNCHANGED <<config, keyring, files, cred>>
  /\ CredFrame

NextRotation ==
  \/ \E p \in ReadNames, f \in Failures : cred.n = 0 /\ GetAuthenticatedClient(p, f)
  \/ \E p \in ReadNames, e \in TokenEvents : RotationEvent(p, e)
  \/ \E i \in 1..MaxEvents, f \in Failures : HookRead(i, f)
  \/ \E i \in 1..MaxEvents, f \in Failures : HookWrite(i, f)

SpecRotation == InitBackend /\ [][NextRotation]_vars

\* C35: two token events for the same profile, the earlier with a newly issued
\* refresh token and the later with none, both with an access token: when
\* both listeners have finished, in whatever order their reads and writes
\* were interleaved, the stored tokens hold the newly issued refresh token.
\* (The claim as stated.)
C35_ConcurrentRotation ==
  (/\ Len(hooks.events) = 2
   /\ hooks.running = <<>>
   /\ hooks.events[1].p = hooks.events[2].p
   /\ hooks.events[1].newTokens.access_token # Undefined
   /\ hooks.events[1].newTokens.refresh_token # Undefined
   /\ hooks.events[2].newTokens.access_token # Undefined
   /\ hooks.events[2].newTokens.refresh_token = Undefined)
  => /\ StoredTokens(World, hooks.events[1].p) # Null
     /\ StoredTokens(World, hooks.events[1].p).refresh_token
          = hooks.events[1].newTokens.refresh_token

-----------------------------------------------------------------------------
(* The API clients (lib/gmail-client.ts, lib/calendar-client.ts).  Each     *)
(* module keeps a clientCache from profile name to client object; a client  *)
(* object keeps the API handle it built from getAuthenticatedClient.  An    *)
(* API method awaits getGmail (getCalendar), which tests the handle, awaits *)
(* getAuthenticatedClient and only then assigns the handle.                 *)

MaxCalls == 3

ClientKinds == {"gmail", "calendar"}

\* The object clientCache holds for a profile (0: none).
cached(c, kind, p) ==
  IF \E e \in c.cache : e[1] = kind /\ e[2] = p
    THEN (CHOOSE e \in c.cache : e[1] = kind /\ e[2] = p)[3]
    ELSE 0

\* getGmailClient / getCalendarClient: the cache after the call.
getClient(c, kind, p) ==
  IF cached(c, kind, p) # 0
    THEN [c EXCEPT !.returned = @ \cup {<<kind, p, cached(c, kind, p)>>}]
    ELSE [c EXCEPT !.cache = @ \cup {<<kind, p, Len(c.objects) + 1>>},
                   !.objects = Append(@, [handle |-> 0, resolved |-> 0]),
                   !.returned = @ \cup {<<kind, p, Len(c.objects) + 1>>}]

ClientFrame ==
  UNCHANGED <<last, backendMode, cred, hooks, authStateToken, flow, reqs, disk, writer,
              readers, emitted>>

\* An API method of the client of a profile is called: with a handle it goes
\* on to its request, without one it awaits getAuthenticatedClient.
ApiCallStarts(i, kind, p) ==
  /\ clients.started < MaxCalls
  /\ clients.calls[i].pc \in {"idle", "done", "failed"}
  /\ LET c == getClient(clients, kind, p)
         id == cached(c, kind, p)
     IN clients' = [c EXCEPT
          !.started = @ + 1,
          !.calls[i] = [pc |-> IF c.objects[id].handle # 0 THEN "done" ELSE "resolving",
                        id |-> id, p |-> p]]
  /\ UNCHANGED <<config, keyring, files>>
  /\ ClientFrame

\* getAuthenticatedClient returns to getGmail: it has run the migration, and
\* with credentials and tokens it has built an auth client and registered
\* its rotation hook; getGmail assigns the handle.  Without them it throws.
AuthResolves(i) ==
  /\ clients.calls[i].pc = "resolving"
  /\ SetWorld(migrateOldCredentials(World, AllUp))
  /\ LET id == clients.calls[i].id
     IN clients' =
          IF isAuthenticated(World, clients.calls[i].p, AllUp)
            THEN [clients EXCEPT
                    !.objects[id] = [handle |-> @.resolved + 1, resolved |-> @.resolved + 1],
                    !.calls[i].pc = "done"]
            ELSE [clients EXCEPT !.calls[i].pc = "failed"]
  /\ ClientFrame

NextClient ==
  \/ \E i \in CallSlots, kind \in ClientKinds, p \in ReadNames : ApiCallStarts(i, kind, p)
  \/ \E i \in CallSlots : AuthResolves(i)

SpecClient == InitBackend /\ [][NextClient]_vars

\* C25: for each profile every call of getGmailClient (getCalendarClient)
\* returns the same client object, and a client object resolves credentials
\* through getAuthenticatedClient, registering a rotation hook, at most once.
\* (The claim as stated.)
C25_ClientResolvesOnce ==
  /\ \A e1, e2 \in clients.returned :
       (e1[1] = e2[1] /\ e1[2] = e2[2]) => e1[3] = e2[3]
  /\ \A id \in 1..Len(clients.objects) : clients.objects[id].resolved <= 1

-----------------------------------------------------------------------------
(* Error messages (lib/errors.ts).  A message is a sequence of tokens: the  *)
(* four key words of sanitizeErrorMessage, the characters "=", ":" and " ", *)
(* pieces of text made of the characters a secret value is matched with     *)
(* ([\w\-._~+/]: "SECRET", "x"; the key words are made of them too), and    *)
(* text that is not ("!", "[REDACTED]").                                    *)

MaxLen == 5

Alphabet == {"Bearer", "access_token", "client_secret", "=", " ", "SECRET", "x", "!"}

MessagesUpTo(n) == UNION {[1..k -> Alphabet] : k \in 0..n}

KeyWords == {"access_token", "refresh_token", "client_secret"}

\* The tokens [\w\-._~+/]+ matches.
ValueTokens == KeyWords \cup {"Bearer", "SECRET", "x"}

\* The number of tokens of the set from position i on.
RECURSIVE Run(_, _, _)
Run(msg, i, set) ==
  IF i > Len(msg) \/ msg[i] \notin set THEN 0 ELSE 1 + Run(msg, i + 1, set)

\* The length of the match of /Bearer\s+[\w\-._~+/]+=*/ at position i (0: none).
matchBearer(msg, i) ==
  LET sp == Run(msg, i + 1, {" "})
      val == Run(msg, i + 1 + sp, ValueTokens)
      eq == Run(msg, i + 1 + sp + val, {"="})
  IN IF msg[i] = "Bearer" /\ sp >= 1 /\ val >= 1 THEN 1 + sp + val + eq ELSE 0

\* The length of the match of /key[=:]\s*[\w\-._~+/]+=*/ at position i (0: none).
matchKey(msg, i, key) ==
  LET sp == Run(msg, i + 2, {" "})
      val == Run(msg, i + 2 + sp, ValueTokens)
      eq == Run(msg, i + 2 + sp + val, {"="})
  IN IF msg[i] = key /\ Run(msg, i + 1, {"=", ":"}) >= 1 /\ val >= 1
       THEN 2 + sp + val + eq ELSE 0

\* message.replace(/.../gi, ...) for one key word, from position i on.
RECURSIVE replace(_, _, _)
replace(msg, i, key) ==
  LET n == IF key = "Bearer" THEN matchBearer(msg, i) ELSE matchKey(msg, i, key)
  IN IF i > Len(msg) THEN <<>>
     ELSE IF n > 0
       THEN <<key, IF key = "Bearer" THEN " " ELSE "=", "[REDACTED]">> \o replace(msg, i + n, key)
     ELSE <<msg[i]>> \o replace(msg, i + 1, key)

sanitizeErrorMessage(message) ==
  replace(replace(replace(replace(message, 1, "Bearer"),
                          1, "access_token"), 1, "refresh_token"), 1, "client_secret")

\* message.includes(text), for a text that is one token.
includes(message, text) == \E i \in 1..Len(message) : message[i] = text

SanitizeFrame ==
  UNCHANGED <<config, last, backendMode, keyring, files, cred, hooks, authStateToken,
              flow, reqs, disk, writer, readers, clients>>

Sanitize ==
  /\ emitted.path = "none"
  /\ emitted' = [emitted EXCEPT !.path = "sanitize",
                                !.output = sanitizeErrorMessage(emitted.error.message)]
  /\ SanitizeFrame

InitSanitize ==
  /\ config = createDefaultConfig
  /\ last = NoOp
  /\ backendMode = "keyring"
  /\ keyring = EmptyKeyring
  /\ files = EmptyFiles
  /\ cred = NoCred
  /\ hooks = NoHooks
  /\ authStateToken = Null
  /\ flow = NoFlow
  /\ reqs = <<>>
  /\ disk = EmptyDisk
  /\ writer = NoWriter
  /\ readers = NoReaders
  /\ clients = NoClients
  /\ emitted \in {[NoEmitted EXCEPT !.error.message = m] : m \in MessagesUpTo(MaxLen)}

SpecSanitize == InitSanitize /\ [][Sanitize]_vars

\* The token at position i directly follows "Bearer " or key=.
FollowsPattern(msg, i) ==
  /\ i > 2
  /\ \/ msg[i - 2] = "Bearer" /\ msg[i - 1] = " "
     \/ msg[i - 2] \in KeyWords /\ msg[i - 1] = "="

\* The message holds a secret, and wherever it does the secret is the value
\* that follows one of the four patterns.
SecretIsValue(msg) ==
  /\ includes(msg, "SECRET")
  /\ \A i \in 1..Len(msg) : msg[i] = "SECRET" => FollowsPattern(msg, i)

\* C27: when the value that follows "Bearer ", "access_token=",
\* "refresh_token=" or "client_secret=" in a message is a secret, the secret
\* does not occur in sanitizeErrorMessage(message), whatever else the message
\* holds; and a message with none of the four patterns is returned unchanged.
\* (The claim as stated.)
C27_SecretsRedacted ==
  emitted.path = "sanitize"
  => /\ SecretIsValue(emitted.error.message) => ~includes(emitted.output, "SECRET")
     /\ (~\E i \in 1..(Len(emitted.error.message) + 2) :
            FollowsPattern(emitted.error.message \o <<"", "">>, i))
          => emitted.output = emitted.error.message

-----------------------------------------------------------------------------
(* The two ways an error reaches the user: a CLI command, whose action is   *)
(* wrapped by withErrorHandling and ends in handleError (lib/errors.ts,     *)
(* lib/command-utils.ts), and an MCP tool handler, whose catch returns      *)
(* errorResponse (mcp/server.ts).                                           *)

MaxDetail == 3

\* What getAuthenticatedClient throws for a profile without client
\* credentials, and for one with client credentials and without tokens.
notAuthenticatedError(p) ==
  [class |-> "Error",
   message |-> <<"Profile '", p, "' ", "not authenticated",
                 ". Run: google auth login --profile ", p>>]

noTokensError(p) ==
  [class |-> "Error",
   message |-> <<"No tokens", " found for profile '", p,
                 "'. Run: google auth login --profile ", p>>]

\* The error getAuthenticatedClient(p) ends with (class "none": it returns).
getAuthenticatedClientError(W, p) ==
  IF getClientCredentials(W, p, AllUp) = Null THEN notAuthenticatedError(p)
  ELSE IF getTokens(migrateOldCredentials(W, AllUp), p, AllUp) = Null THEN noTokensError(p)
  ELSE NoEmitted.error

\* The values a command or a tool handler may throw otherwise: a
\* GoogleCliError, an Error of a library, or a value that is not an Error.
Thrown ==
  {[class |-> c, message |-> m] : c \in {"GoogleCliError", "Error"}, m \in MessagesUpTo(MaxDetail)}
    \cup {[class |-> "other", message |-> <<>>]}

\* handleError: the JSON it writes before process.exit(1).
handleError(error) ==
  IF error.class = "GoogleCliError"
    THEN [name |-> "cli_error", detail |-> sanitizeErrorMessage(error.message),
          statusCode |-> 1, hint |-> Null]
  ELSE IF error.class = "Error"
    THEN IF includes(error.message, "Not authenticated") \/ includes(error.message, "No tokens")
           THEN [name |-> "auth_error", detail |-> sanitizeErrorMessage(error.message),
                 statusCode |-> 401, hint |-> <<"Run: google auth login">>]
           ELSE [name |-> "unknown_error", detail |-> sanitizeErrorMessage(error.message),
                 statusCode |-> 1, hint |-> Null]
  ELSE [name |-> "unknown_error", detail |-> <<"An unknown error occurred">>,
        statusCode |-> 1, hint |-> Null]

\* errorResponse: the JSON the tool returns.
errorResponse(error) ==
  [name |-> "mcp_error",
   detail |-> IF error.class \in {"GoogleCliError", "Error"} THEN error.message
              ELSE <<"Unknown error">>]

Surface(path, error) ==
  emitted' = [path |-> path, error |-> error,
              output |-> IF path = "cli" THEN handleError(error) ELSE errorResponse(error)]

ErrorFrame ==
  UNCHANGED <<last, backendMode, cred, hooks, authStateToken, flow, reqs, disk, writer,
              readers, clients>>

\* A command or a tool handler throws.
Throws(path, error) ==
  /\ emitted.path = "none"
  /\ Surface(path, error)
  /\ UNCHANGED <<config, keyring, files>>
  /\ ErrorFrame

\* A command or a tool handler asks for the client of a profile that is not
\* authenticated: getAuthenticatedClient runs the migration and throws.
NotAuthenticated(path, p) ==
  /\ emitted.path = "none"
  /\ getAuthenticatedClientError(World, p).class # "none"
  /\ Surface(path, getAuthenticatedClientError(World, p))
  /\ SetWorld(migrateOldCredentials(World, AllUp))
  /\ ErrorFrame

NextErrors ==
  \/ \E path \in {"cli", "mcp"}, error \in Thrown : Throws(path, error)
  \/ \E path \in {"cli", "mcp"}, p \in ReadNames : NotAuthenticated(path, p)

\* Both profiles without secrets, or "work" with client credentials and
\* without tokens.
InitErrors ==
  /\ config = LoggedInConfig
  /\ last = NoOp
  /\ backendMode \in {"keyring", "file"}
  /\ \/ keyring = EmptyKeyring /\ files = EmptyFiles
     \/ /\ keyring = StorageDelete(LoggedInStore(backendMode), "work", "tokens", TRUE).keyring
        /\ files = StorageDelete(LoggedInStore(backendMode), "work", "tokens", TRUE).files
  /\ cred = NoCred
  /\ hooks = NoHooks
  /\ authStateToken = Null
  /\ flow = NoFlow
  /\ reqs = <<>>
  /\ disk = EmptyDisk
  /\ writer = NoWriter
  /\ readers = NoReaders
  /\ clients = NoClients
  /\ emitted = NoEmitted

SpecErrors == InitErrors /\ [][NextErrors]_vars

\* C26: on every error path, a CLI command ending in handleError and an MCP
\* tool handler returning errorResponse, the message written is the error's
\* message passed through sanitizeErrorMessage.  (The claim as stated.)
C26_EveryPathSanitizes ==
  (emitted.path \in {"cli", "mcp"} /\ emitted.error.class \in {"GoogleCliError", "Error"})
  => emitted.output.detail = sanitizeErrorMessage(emitted.error.message)

\* C28: when a CLI command fails because the profile is not authenticated,
\* for want of client credentials or for want of tokens, the JSON written has
\* name "auth_error", statusCode 401 and the hint to run the login command.
\* (The claim as stated.)
C28_NotAuthenticatedOutput ==
  (/\ emitted.path = "cli"
   /\ \E p \in ReadNames : emitted.error \in {notAuthenticatedError(p), noTokensError(p)})
  => /\ emitted.output.name = "auth_error"
     /\ emitted.output.statusCode = 401
     /\ emitted.output.hint = <<"Run: google auth login">>

-----------------------------------------------------------------------------
(* The registry over a stored record that is missing or that loadConfig     *)
(* does not accept (lib/config.ts).  The reading operations are actions     *)
(* here, since on such a record they throw.                                 *)

StoredRecords ==
  {createDefaultConfig} \cup {[createDefaultConfig EXCEPT !.state = st] : st \in CorruptStates}

\* getActiveProfile, listProfiles, profileExists, getProfileEmail: each calls
\* loadConfig and writes nothing.
ReadOps == {"getActiveProfile", "listProfiles", "profileExists", "getProfileEmail"}

ReadRegistry(op, name) ==
  /\ (op \in {"getActiveProfile", "listProfiles"}) <=> (name = "")
  /\ config' = config
  /\ Done(op, name, Undefined, loadConfigError(config))
  /\ RestUnchangedByRegistry

NextLoad ==
  \/ NextRegistry
  \/ \E op \in ReadOps, name \in ValidNames \cup {""} : ReadRegistry(op, name)

InitLoad ==
  /\ config \in StoredRecords
  /\ last = NoOp
  /\ backendMode = "keyring"
  /\ keyring = EmptyKeyring
  /\ files = EmptyFiles
  /\ cred = NoCred
  /\ hooks = NoHooks
  /\ authStateToken = Null
  /\ flow = NoFlow
  /\ reqs = <<>>
  /\ disk = EmptyDisk
  /\ writer = NoWriter
  /\ readers = NoReaders
  /\ clients = NoClients
  /\ emitted = NoEmitted

SpecLoad == InitLoad /\ [][NextLoad]_vars

\* C21: a missing record loads as active profile "default" with no profiles,
\* and profileExists("default") is false; on a record that is malformed or
\* lacks activeProfile or profiles, every registry operation called with a
\* well-formed profile name fails with the corrupt-config error and leaves the
\* stored record as it was.  (The claim as stated.)
C21_MissingAndCorruptRecords ==
  /\ config.state = "missing"
       => /\ getActiveProfile(config) = "default"
          /\ listProfiles(config) = {}
          /\ ~profileExists(config, "default")
  /\ (/\ last.op # "none"
      /\ last.pre.state \in CorruptStates
      /\ last.name \in ValidNames \cup {""})
       => /\ last.result = "CorruptConfig"
          /\ config = last.pre

-----------------------------------------------------------------------------
(* The whole program: registry operations, credential operations and the    *)
(* login flow, from a fresh registry with or without legacy secrets.        *)

Init == InitCred

Next == NextRegistry \/ NextCred \/ NextFlow

Spec == Init /\ [][Next]_vars

====
